---- MODULE Spec2Model ----
(***************************************************************************)
(* Session / Room / KernelManager orchestration of                         *)
(* marimo/_server/sessions.py, modelled for one Session object.            *)
(*                                                                         *)
(* The kernel, the consumers (websocket handlers) and the message          *)
(* distributor are collaborators: the kernel and the consumers are the     *)
(* environment (they emit messages, die, change connection state, raise    *)
(* from their stop hook); the distributor is modelled from its contract.   *)
(***************************************************************************)
EXTENDS Integers, Sequences, FiniteSets, TLC

(* ------------------------------ bounds --------------------------------- *)
\* number of messages the kernel emits in a behaviour
MaxMsgs == 2
\* number of control requests the session puts in a behaviour
MaxQueue == 2
\* number of Session objects the SessionManager creates
MaxSessions == 2

(* ------------------------------ domains -------------------------------- *)
Consumers == {"A", "B", "C"}
None == "None"
\* SessionConsumer.consumer_id: a stable id per consumer
ConsumerIdOf(c) == CASE c = "A" -> "id_A" [] c = "B" -> "id_B" [] OTHER -> "id_C"
ConsumerIds == {ConsumerIdOf(c) : c \in Consumers}
\* ConnectionState enum (marimo/_server/model.py)
OPEN == "OPEN"
CLOSED == "CLOSED"
ORPHANED == "ORPHANED"
ConnectionState == {OPEN, CLOSED, ORPHANED}
\* every combination of what the consumers' connection_state() can return
ConsumerStates == [Consumers -> ConnectionState]
\* SessionMode enum
EDIT == "EDIT"
RUN == "RUN"
Cells == {"c1", "c2"}
Statuses == {"running", "idle"}
\* the subscription of the Session View's add_raw_operation callback
ViewCallback == "view"

\* SessionManager: session ids are the ids clients connect with, file keys
\* name notebook files, session objects are numbered in order of creation
SessionIds == ConsumerIds
FileKeys == {"f.py", "g.py"}
Objs == 1..MaxSessions
NoSession == 0

(* ------------------------------ state ---------------------------------- *)
VARIABLES
    mode,                 \* KernelManager.mode
    profile_path,         \* KernelManager.profile_path is not None
    main_consumer,        \* Room.main_consumer (None or a consumer)
    consumers,            \* Room.consumers: the keys in insertion order
    disposables,          \* Room.disposables: the keys (value: unsubscribe handle of the key)
    conn,                 \* what consumer.connection_state() returns, per consumer in the room
    subs,                 \* distributor's callbacks in registration order
    running,              \* distributor's read loop is started and not stopped
    emitted,              \* number of messages the kernel has written to its stream
    delivered,            \* number of messages the distributor has read and fanned out
    received,             \* per consumer: messages its subscribed callback was called with
    joined_at,            \* per consumer: value of delivered when it last connected
    session_view,         \* SessionView
    control_queue,        \* QueueManager.control_queue
    set_ui_element_queue, \* QueueManager.set_ui_element_queue
    queues_closed,        \* multiprocessing queues closed by close_queues
    closed,               \* Session._closed
    heartbeat_task,       \* state of Session.heartbeat_task
    kernel_alive,         \* kernel_task.is_alive()
    kernel_closes,        \* number of close_kernel calls
    terminated,           \* kernel_task.terminate() was called
    profile_exists,       \* os.path.exists(profile_path)
    pc,                   \* "idle", or where the event loop is blocked
    disposal,             \* per consumer: fate of the disposable of its latest registration
    written,              \* per consumer: what its write_operation was called with by the last step
    lastOp,               \* what the call of the last step did: whether it raised, the hooks it ran
    kernel_starts,        \* number of start_kernel calls on the session's KernelManager
    session_cache_manager, \* Session.session_cache_manager: None, "started" or "stopped"
    watched,              \* the paths under which the session's on_file_changed is registered
    session_cache_writer, \* the SessionCacheManager's view and its SessionCacheWriter
    sessions,             \* SessionManager.sessions: the entries (id, session object) in insertion order
    objs,                 \* the Session objects the SessionManager has created
    watch,                \* SessionManager.watch
    cache,                \* a SessionCacheManager call: the cache file, the key, the outcome
    mgrOp                 \* the last SessionManager call, what it returned and whether it raised

roomVars == <<main_consumer, consumers, disposables>>
distVars == <<subs, running>>
streamVars == <<emitted, delivered, received, joined_at>>
queueVars == <<control_queue, set_ui_element_queue, queues_closed>>
kernelVars == <<kernel_alive, kernel_closes, terminated, profile_exists>>
configVars == <<mode, profile_path, cache>>
lifeVars == <<kernel_starts, session_cache_manager, watched, session_cache_writer>>
mgrVars == <<sessions, objs, watch, mgrOp>>
sessionVars == <<mode, profile_path, cache, main_consumer, consumers, disposables, conn,
                 subs, running, emitted, delivered, received, joined_at,
                 session_view, control_queue, set_ui_element_queue, queues_closed,
                 closed, heartbeat_task, kernel_alive, kernel_closes, terminated,
                 profile_exists, pc, disposal, written, lastOp, kernel_starts,
                 session_cache_manager, watched, session_cache_writer>>
vars == <<mode, profile_path, cache, main_consumer, consumers, disposables, conn, subs,
          running, emitted, delivered, received, joined_at, session_view,
          control_queue, set_ui_element_queue, queues_closed, closed,
          heartbeat_task, kernel_alive, kernel_closes, terminated,
          profile_exists, pc, disposal, written, lastOp, kernel_starts,
          session_cache_manager, watched, session_cache_writer, sessions, objs,
          watch, mgrOp>>

(* ------------------------------ helpers -------------------------------- *)
Range(s) == {s[i] : i \in 1..Len(s)}

\* dict.pop(key) / list.remove(x): the sequence without the first occurrence of x
RemoveFirst(s, x) ==
    IF x \notin Range(s) THEN s
    ELSE LET k == CHOOSE i \in 1..Len(s) : s[i] = x /\ \A j \in 1..(i-1) : s[j] # x
         IN  SubSeq(s, 1, k-1) \o SubSeq(s, k+1, Len(s))

RECURSIVE RemoveAll(_, _)
\* the sequence s after list.remove(x) for each x of the sequence xs, in order
RemoveAll(s, xs) ==
    IF xs = <<>> THEN s ELSE RemoveAll(RemoveFirst(s, Head(xs)), Tail(xs))

\* a local variable: F applied to the value of e, which is computed once
Let(e, F(_)) == CHOOSE v \in {F(x) : x \in {e}} : TRUE

\* number of occurrences of x in s
Count(s, x) == Cardinality({i \in 1..Len(s) : s[i] = x})

\* <<m, m, ...>> n times
Repeat(m, n) == [i \in 1..n |-> m]

NoWrites == [c \in Consumers |-> <<>>]
\* the record every step leaves in lastOp
NoOp == [raised |-> FALSE, hooks |-> <<>>]

\* MessageOperation values written through Session.write_operation
CellOps == [kind : {"CellOp"}, cells : {<<c>> : c \in Cells}, status : Statuses]

\* ControlRequest values put through Session.put_control_request
ControlRequests ==
    [kind : {"ExecuteMultipleRequest"}, cells : {<<"c1">>, <<"c1", "c2">>}]
    \cup [kind : {"SetUIElementValueRequest", "CreationRequest"}, cells : {<<>>}]
StopRequest == [kind |-> "StopRequest", cells |-> <<>>]

\* a hook call as the log of a step keeps it: the hook's name (the consumer it
\* belongs to is the one the step was working on)
Hook(h, c) == h

(* ------------------- message distributor (contract) -------------------- *)
\* Distributor.add_consumer(callback): callbacks are kept in registration order
Distributor_add_consumer(callbacks, cb) == Append(callbacks, cb)

(* -------------------------------- Room --------------------------------- *)
Room == [main_consumer |-> main_consumer, consumers |-> consumers,
         disposables |-> disposables]

\* add_consumer that registers the consumer and never fills the main slot
Room_add_consumer_NoMainSlot(room, c, main) ==
    [room |-> [room EXCEPT
                 !.consumers = IF c \in Range(@) THEN @ ELSE Append(@, c),
                 !.disposables = @ \cup {c}],
     raised |-> (main /\ room.main_consumer # None)]

\* Room.add_consumer(consumer, dispose, consumer_id, main)
Room_add_consumer(room, c, main) ==
    LET r1 == [room EXCEPT
                 !.consumers = IF c \in Range(@) THEN @ ELSE Append(@, c),
                 !.disposables = @ \cup {c}]
    IN  IF main
        THEN IF room.main_consumer # None
             THEN [room |-> r1, raised |-> TRUE]
             ELSE [room |-> [r1 EXCEPT !.main_consumer = c], raised |-> FALSE]
        ELSE [room |-> r1, raised |-> FALSE]

\* remove_consumer that leaves the main slot as it is
Room_remove_consumer_KeepsMain(room, c, stop_raises) ==
    IF c \notin Range(room.consumers)
    THEN [room |-> room, raised |-> FALSE, hooks |-> <<>>, disposed |-> <<>>,
          in_room |-> FALSE, was_main |-> FALSE]
    ELSE [room |-> [room EXCEPT !.consumers = RemoveFirst(@, c),
                                !.disposables = @ \ {c}],
          raised |-> stop_raises,
          hooks |-> <<Hook(IF stop_raises THEN "on_stop_raises" ELSE "on_stop", c),
                      Hook("dispose", c)>>,
          disposed |-> <<c>>, in_room |-> TRUE,
          was_main |-> (c = room.main_consumer)]

\* Room.remove_consumer(consumer); stop_raises: consumer.on_stop() raises
Room_remove_consumer(room, c, stop_raises) ==
    IF c \notin Range(room.consumers)
    THEN [room |-> room, raised |-> FALSE, hooks |-> <<>>, disposed |-> <<>>,
          in_room |-> FALSE, was_main |-> FALSE]
    ELSE LET r1 == [room EXCEPT
                      !.main_consumer = IF c = @ THEN None ELSE @,
                      !.consumers = RemoveFirst(@, c)]
         IN  IF c \notin room.disposables
             THEN \* self.disposables.pop(consumer) raises KeyError
                  [room |-> r1, raised |-> TRUE, hooks |-> <<>>,
                   disposed |-> <<>>, in_room |-> TRUE,
                   was_main |-> (c = room.main_consumer)]
             ELSE [room |-> [r1 EXCEPT !.disposables = @ \ {c}],
                   raised |-> stop_raises,
                   hooks |-> <<Hook(IF stop_raises THEN "on_stop_raises" ELSE "on_stop", c),
                               Hook("dispose", c)>>,
                   disposed |-> <<c>>, in_room |-> TRUE,
                   was_main |-> (c = room.main_consumer)]

\* broadcast that does not look at the consumers' connection state
Room_broadcast_IgnoresState(room, except_consumer, states) ==
    SelectSeq(room.consumers, LAMBDA c : ConsumerIdOf(c) # except_consumer)

\* Room.broadcast(operation, except_consumer): the consumers whose
\* write_operation is called, in call order; states: what each consumer's
\* connection_state() returns
Room_broadcast(room, except_consumer, states) ==
    SelectSeq(room.consumers,
              LAMBDA c : ConsumerIdOf(c) # except_consumer /\ states[c] = OPEN)

RECURSIVE Room_close_loop(_, _, _)
\* the for loop of Room.close over the consumers todo
Room_close_loop(acc, todo, R) ==
    IF todo = <<>> THEN acc
    ELSE LET c == Head(todo)
         IN  IF c \notin acc.disposables
             THEN [acc EXCEPT !.raised = TRUE]
             ELSE IF c \in R
             THEN [acc EXCEPT !.raised = TRUE,
                              !.disposables = @ \ {c},
                              !.dropped = @ \cup {c},
                              !.hooks = Append(@, Hook("on_stop_raises", c))]
             ELSE Let([acc EXCEPT !.disposables = @ \ {c},
                                  !.disposed = Append(@, c),
                                  !.hooks = @ \o <<Hook("on_stop", c), Hook("dispose", c)>>],
                      LAMBDA acc1 : Room_close_loop(acc1, Tail(todo), R))

\* close that empties the consumers and leaves the main slot as it is
Room_close_KeepsMain(room, R) ==
    LET l == Room_close_loop([disposables |-> room.disposables, raised |-> FALSE,
                              hooks |-> <<>>, disposed |-> <<>>, dropped |-> {}],
                             room.consumers, R)
    IN  [room |-> [room EXCEPT !.disposables = l.disposables,
                               !.consumers = IF l.raised THEN @ ELSE <<>>],
         raised |-> l.raised, hooks |-> l.hooks, disposed |-> l.disposed,
         dropped |-> l.dropped]

\* Room.close(); R: the consumers whose on_stop() raises
Room_close(room, R) ==
    Let(Room_close_loop([disposables |-> room.disposables, raised |-> FALSE,
                         hooks |-> <<>>, disposed |-> <<>>, dropped |-> {}],
                        room.consumers, R),
        LAMBDA l :
            IF l.raised
            THEN [room |-> [room EXCEPT !.disposables = l.disposables],
                  raised |-> TRUE, hooks |-> l.hooks, disposed |-> l.disposed,
                  dropped |-> l.dropped]
            ELSE [room |-> [main_consumer |-> None, consumers |-> <<>>,
                            disposables |-> l.disposables],
                  raised |-> FALSE, hooks |-> l.hooks, disposed |-> l.disposed,
                  dropped |-> l.dropped])

(* --------------------------- SessionView (contract) -------------------- *)
\* needs_export: what SessionView.needs_export("session") returns, true from
\* a change of the view until mark_auto_export_session(); object: which
\* SessionView object it is, the one Session.__init__ made ("original") or the
\* one deserialize_session made from the cache file ("deserialized")
\* SessionView.add_operation: overwrite-latest per cell
SessionView_add_operation(view, operation) ==
    IF operation.kind = "CellOp"
    THEN [view EXCEPT !.cells[operation.cells[1]] = operation.status,
                      !.needs_export = TRUE]
    ELSE view

\* SessionView.add_raw_operation: the kernel message is recorded
SessionView_add_raw_operation(view, m) ==
    [view EXCEPT !.raw = Append(@, m), !.needs_export = TRUE]

\* SessionView.add_control_request
SessionView_add_control_request(view, request) ==
    [view EXCEPT !.requests = Append(@, request), !.needs_export = TRUE]

(* ----------------------------- QueueManager ---------------------------- *)
\* QueueManager.close_queues on the state s of a session
QueueManager_close_queues(s) ==
    IF mode = EDIT
    THEN [s EXCEPT !.queues_closed = TRUE]
    ELSE [s EXCEPT !.control_queue = Append(@, StopRequest)]

(* ----------------------------- KernelManager --------------------------- *)
\* KernelManager.start_kernel on a manager whose kernel was started n times
KernelManager_start_kernel(n) == n + 1

\* close_kernel from self.queue_manager.close_queues() on (process mode)
KernelManager_close_kernel_tail(s) ==
    Let(QueueManager_close_queues(s),
        LAMBDA s1 : [s1 EXCEPT !.terminated = (@ \/ s1.kernel_alive),
                               !.kernel_alive = FALSE,
                               !.pc = "idle"])

\* KernelManager.close_kernel on the state s of a session
KernelManager_close_kernel(s) ==
    Let([s EXCEPT !.kernel_closes = IF @ < 2 THEN @ + 1 ELSE @],
        LAMBDA s0 :
            IF mode = EDIT
            THEN IF profile_path /\ s0.kernel_alive
                 THEN Let([s0 EXCEPT !.control_queue = Append(@, StopRequest)],
                          LAMBDA s1 :
                              IF profile_exists
                              THEN KernelManager_close_kernel_tail(s1)
                              ELSE \* while not os.path.exists(...): time.sleep(0.1)
                                   [s1 EXCEPT !.pc = "close_wait"])
                 ELSE KernelManager_close_kernel_tail(s0)
            ELSE IF s0.kernel_alive
                 THEN [s0 EXCEPT !.control_queue = Append(@, StopRequest)]
                 ELSE s0)

(* -------------------------------- Session ------------------------------ *)
\* the part of a session's state that close() works on, with what the call did
Sess == [closed |-> closed, room |-> Room, subs |-> subs, running |-> running,
         heartbeat_task |-> heartbeat_task, control_queue |-> control_queue,
         queues_closed |-> queues_closed, kernel_alive |-> kernel_alive,
         kernel_closes |-> kernel_closes, terminated |-> terminated, pc |-> pc,
         kernel_starts |-> kernel_starts,
         session_cache_manager |-> session_cache_manager,
         raised |-> FALSE, hooks |-> <<>>, disposed |-> <<>>, dropped |-> {}]

\* a Session object of the SessionManager that is not created yet; watched:
\* the paths under which the FileWatcherManager holds the session's
\* on_file_changed callback
NoObject ==
    [created |-> FALSE, path |-> "-", closed |-> FALSE,
     room |-> [main_consumer |-> None, consumers |-> <<>>, disposables |-> {}],
     subs |-> <<>>, running |-> FALSE, heartbeat_task |-> "-",
     control_queue |-> <<>>, queues_closed |-> FALSE, kernel_alive |-> FALSE,
     kernel_closes |-> 0, terminated |-> FALSE, pc |-> "idle",
     kernel_starts |-> 0, session_cache_manager |-> None,
     conn |-> [c \in Consumers |-> CLOSED], watched |-> {},
     raised |-> FALSE, hooks |-> <<>>, disposed |-> <<>>, dropped |-> {}]

\* connect_consumer that registers the consumer in the room without
\* subscribing it to the distributor
Session_connect_consumer_NoSubscribe(room, callbacks, c, main) ==
    LET r == Room_add_consumer(room, c, main)
    IN  [room |-> r.room, subs |-> callbacks, raised |-> r.raised]

\* connect_consumer that puts the consumer's callback in front of the
\* callbacks registered before it
Session_connect_consumer_SubscribesFirst(room, callbacks, c, main) ==
    LET r == Room_add_consumer(room, c, main)
    IN  [room |-> r.room, subs |-> <<c>> \o callbacks, raised |-> r.raised]

\* Session.connect_consumer(session_consumer, main=main)
Session_connect_consumer(room, callbacks, c, main) ==
    LET callbacks1 == Distributor_add_consumer(callbacks, c)
        r == Room_add_consumer(room, c, main)
    IN  [room |-> r.room, subs |-> callbacks1, raised |-> r.raised]

\* connection_state that looks at the main slot before the closed flag
Session_connection_state_RoomFirst(is_closed, main, states) ==
    IF main = None THEN ORPHANED
    ELSE IF is_closed THEN CLOSED
    ELSE states[main]

\* Session.connection_state()
Session_connection_state(is_closed, main, states) ==
    IF is_closed THEN CLOSED
    ELSE IF main = None THEN ORPHANED
    ELSE states[main]

\* write_operation that records the operation only when a consumer gets it
Session_write_operation_SkipsView(view, room, operation, from, states) ==
    [view |-> IF Room_broadcast(room, from, states) = <<>> THEN view
              ELSE SessionView_add_operation(view, operation),
     written |-> Room_broadcast(room, from, states)]

\* Session.write_operation(operation, from_consumer_id): the new view and the
\* consumers written to
Session_write_operation(view, room, operation, from, states) ==
    [view |-> SessionView_add_operation(view, operation),
     written |-> Room_broadcast(room, from, states)]

\* close that closes the kernel first and the room after it
Session_close_KernelFirst(s, R) ==
    IF s.closed THEN [s EXCEPT !.raised = FALSE]
    ELSE LET k == KernelManager_close_kernel(
                      [s EXCEPT !.closed = TRUE,
                                !.hooks = @ \o <<"close_kernel">>])
             rc == Room_close(k.room, R)
             s1 == [k EXCEPT !.room = rc.room,
                             !.subs = RemoveAll(@, rc.disposed),
                             !.hooks = @ \o rc.hooks,
                             !.disposed = @ \o rc.disposed,
                             !.dropped = @ \cup rc.dropped]
         IN  IF rc.raised
             THEN [s1 EXCEPT !.raised = TRUE]
             ELSE [s1 EXCEPT !.running = FALSE,
                             !.heartbeat_task = IF @ = "running" THEN "cancelled" ELSE @,
                             !.session_cache_manager =
                                 IF @ = None THEN @ ELSE "stopped",
                             !.hooks = @ \o <<"distributor.stop", "heartbeat.cancel">>
                                         \o (IF s1.session_cache_manager = None
                                             THEN <<>> ELSE <<"cache.stop">>)]

\* Session.close(); R: the consumers whose on_stop() raises
Session_close(s, R) ==
    IF s.closed THEN [s EXCEPT !.raised = FALSE]
    ELSE Let(Room_close(s.room, R), LAMBDA rc :
         Let([s EXCEPT !.closed = TRUE,
                       !.room = rc.room,
                       !.subs = RemoveAll(@, rc.disposed),
                       !.hooks = @ \o rc.hooks,
                       !.disposed = @ \o rc.disposed,
                       !.dropped = @ \cup rc.dropped], LAMBDA s1 :
         IF rc.raised
         THEN [s1 EXCEPT !.raised = TRUE]
         ELSE Let([s1 EXCEPT !.running = FALSE,
                             !.heartbeat_task = IF @ = "running" THEN "cancelled" ELSE @,
                             !.session_cache_manager =
                                 IF @ = None THEN @ ELSE "stopped",
                             !.hooks = @ \o <<"distributor.stop", "heartbeat.cancel">>
                                         \o (IF s1.session_cache_manager = None
                                             THEN <<>> ELSE <<"cache.stop">>)
                                         \o <<"close_kernel">>],
                  LAMBDA s2 : KernelManager_close_kernel(s2))))

\* _check_alive that never finds the kernel dead
Session_check_alive_Idle(s, R) == s

\* a heartbeat that starts the kernel again when it finds it dead
Session_check_alive_Restarts(s, R) ==
    IF s.kernel_alive THEN s
    ELSE [s EXCEPT !.kernel_alive = TRUE,
                   !.kernel_starts = KernelManager_start_kernel(@)]

\* _check_alive of Session._start_heartbeat: close(), print, close()
Session_check_alive(s, R) ==
    IF s.kernel_alive THEN s
    ELSE Let(Session_close(s, R), LAMBDA s1 :
         IF s1.raised
         THEN [s1 EXCEPT !.heartbeat_task = IF @ = "running" THEN "crashed" ELSE @]
         ELSE Let([s1 EXCEPT !.hooks = Append(@, "print_died")],
                  LAMBDA s2 : Session_close(s2, R)))

\* what each consumer's write_operation was called with by one broadcast
Writes(targets, operation) ==
    [c \in Consumers |-> IF c \in Range(targets) THEN <<operation>> ELSE <<>>]

\* put_control_request that sends the focus notice for every
\* ExecuteMultipleRequest, whatever the number of its cells
Session_put_control_request_FocusAlways(q, view, room, request, from, states) ==
    IF q.queues_closed
    THEN [control_queue |-> q.control_queue,
          set_ui_element_queue |-> q.set_ui_element_queue,
          view |-> view, written |-> NoWrites, raised |-> TRUE]
    ELSE LET targets == Room_broadcast(room, from, states)
             w1 == IF request.kind = "ExecuteMultipleRequest"
                   THEN Writes(targets, [kind |-> "UpdateCellCodes",
                                         cells |-> request.cells,
                                         status |-> "not_stale"])
                   ELSE NoWrites
             w2 == IF request.kind = "ExecuteMultipleRequest"
                   THEN Writes(targets, [kind |-> "FocusCell",
                                         cells |-> <<request.cells[1]>>,
                                         status |-> "-"])
                   ELSE NoWrites
         IN  [control_queue |-> Append(q.control_queue, request),
              set_ui_element_queue |->
                  IF request.kind = "SetUIElementValueRequest"
                  THEN Append(q.set_ui_element_queue, request)
                  ELSE q.set_ui_element_queue,
              view |-> SessionView_add_control_request(view, request),
              written |-> [c \in Consumers |-> w1[c] \o w2[c]],
              raised |-> FALSE]

\* put_control_request that mirrors every request to the UI-value queue
Session_put_control_request_MirrorsAll(q, view, room, request, from, states) ==
    [control_queue |-> Append(q.control_queue, request),
     set_ui_element_queue |-> Append(q.set_ui_element_queue, request),
     view |-> SessionView_add_control_request(view, request),
     written |-> NoWrites,
     raised |-> FALSE]

\* Session.put_control_request(request, from_consumer_id)
Session_put_control_request(q, view, room, request, from, states) ==
    IF q.queues_closed
    THEN \* Queue.put on a closed multiprocessing queue raises ValueError
         [control_queue |-> q.control_queue,
          set_ui_element_queue |-> q.set_ui_element_queue,
          view |-> view, written |-> NoWrites, raised |-> TRUE]
    ELSE LET targets == Room_broadcast(room, from, states)
             w1 == IF request.kind = "ExecuteMultipleRequest"
                   THEN Writes(targets, [kind |-> "UpdateCellCodes",
                                         cells |-> request.cells,
                                         status |-> "not_stale"])
                   ELSE NoWrites
             w2 == IF request.kind = "ExecuteMultipleRequest" /\ Len(request.cells) = 1
                   THEN Writes(targets, [kind |-> "FocusCell",
                                         cells |-> <<request.cells[1]>>,
                                         status |-> "-"])
                   ELSE NoWrites
         IN  [control_queue |-> Append(q.control_queue, request),
              set_ui_element_queue |->
                  IF request.kind = "SetUIElementValueRequest"
                  THEN Append(q.set_ui_element_queue, request)
                  ELSE q.set_ui_element_queue,
              view |-> SessionView_add_control_request(view, request),
              written |-> [c \in Consumers |-> w1[c] \o w2[c]],
              raised |-> FALSE]

(* -------------------------- SessionCacheManager ------------------------ *)
\* the code of a cell: absent (None), empty, or some text
NoCode == "None"
CellCodes == {NoCode, "", "a", "b"}
Versions == {"v1", "v2"}
NoHash == <<>>
MaxCells == 2

\* _hash_code(code): None for an absent or empty code, else the MD5 digest of
\* the code, which differs for the different codes of CellCodes
hash_code(code) == IF code = NoCode \/ code = "" THEN NoHash ELSE <<"md5", code>>

\* the sequences over S of length up to n
SeqUpTo(S, n) == UNION {[1..k -> S] : k \in 0..n}

\* the document serialize_session_view / serialize_notebook write for cells
\* whose codes are codes, under the version v; lacks: the field a document
\* that is valid JSON does not have ("" for a complete document)
NotebookSession(codes, v, lacks) ==
    [cells |-> [i \in 1..Len(codes) |-> [code_hash |-> hash_code(codes[i])]],
     marimo_version |-> v, lacks |-> lacks]

\* SessionCacheKey(codes, marimo_version)
SessionCacheKey(codes, v) == [codes |-> codes, marimo_version |-> v]

\* min(len(a), len(b)), the length of zip(a, b)
ZipLen(a, b) == IF Len(a) < Len(b) THEN Len(a) ELSE Len(b)

\* is_cache_hit that does not look at the version
SessionCacheManager_is_cache_hit_IgnoresVersion(notebook_session, key) ==
    [ret |-> /\ Len(key.codes) = Len(notebook_session.cells)
             /\ \A i \in 1..ZipLen(key.codes, notebook_session.cells) :
                    hash_code(key.codes[i]) = notebook_session.cells[i].code_hash,
     raised |-> FALSE]

\* SessionCacheManager.is_cache_hit(notebook_session, key); raised: a KeyError
\* for a field the document does not have
SessionCacheManager_is_cache_hit(notebook_session, key) ==
    IF notebook_session.lacks = "cells"
    THEN [ret |-> FALSE, raised |-> TRUE]
    ELSE IF \/ Len(key.codes) # Len(notebook_session.cells)
            \/ \E i \in 1..ZipLen(key.codes, notebook_session.cells) :
                   hash_code(key.codes[i]) # notebook_session.cells[i].code_hash
    THEN [ret |-> FALSE, raised |-> FALSE]
    ELSE IF notebook_session.lacks = "metadata"
    THEN [ret |-> FALSE, raised |-> TRUE]
    ELSE IF key.marimo_version # notebook_session.marimo_version
    THEN [ret |-> FALSE, raised |-> FALSE]
    ELSE [ret |-> TRUE, raised |-> FALSE]

\* what is at the place of the cache file: the manager has no path, there is
\* no file, a file that cannot be read or parsed, or a JSON document
CacheFiles == {"no_path", "absent", "unreadable", "document"}

\* SessionCacheManager.read_session_view(key): the view it returns and leaves
\* in self.session_view, the in-memory one or the one deserialized from the
\* document
SessionCacheManager_read_session_view(file, notebook_session, key) ==
    IF file = "no_path" \/ file = "absent" \/ file = "unreadable"
    THEN [view |-> "in-memory", raised |-> FALSE]
    ELSE Let(SessionCacheManager_is_cache_hit(notebook_session, key), LAMBDA hit :
         IF hit.raised THEN [view |-> "in-memory", raised |-> TRUE]
         ELSE IF ~hit.ret THEN [view |-> "in-memory", raised |-> FALSE]
         ELSE [view |-> "deserialized", raised |-> FALSE])

\* no SessionCacheManager call
NoCache == [file |-> "no_path", doc_codes |-> <<>>,
            notebook_session |-> NotebookSession(<<>>, "v1", ""),
            key |-> SessionCacheKey(<<>>, "v1"),
            op |-> "-", ret |-> FALSE, view |-> "in-memory", raised |-> FALSE]

(* --------------------------- SessionCacheWriter ------------------------ *)
\* no SessionCacheManager and no SessionCacheWriter yet. mgr_view: the object
\* SessionCacheManager.session_view is ("-" without a manager); view: the
\* object the manager's SessionCacheWriter serializes ("-" while
\* session_cache_writer is None); path: the notebook whose cache file the
\* writer writes; writing: the document of a write_text the run loop is
\* awaiting; failed: the run loop was left after an error; tasks: the writer
\* tasks started and not stopped; gen: tells a SessionCacheWriter object from
\* the one before it; wrote: per notebook, the document of the last
\* write_text that succeeded
NoWriter ==
    [mgr_view |-> "-", view |-> "-", path |-> "-", writing |-> {}, failed |-> FALSE,
     tasks |-> 0, gen |-> 0, wrote |-> [p \in FileKeys |-> {}]]

\* a run loop that goes on after an error
SessionCacheWriter_run_Retries(view, w, fails) ==
    IF ~view.needs_export THEN [view |-> view, w |-> w]
    ELSE IF fails THEN [view |-> [view EXCEPT !.needs_export = FALSE], w |-> w]
    ELSE [view |-> [view EXCEPT !.needs_export = FALSE],
          w |-> [w EXCEPT !.writing = {[cells |-> view.cells, raw |-> view.raw,
                                        requests |-> view.requests]}]]

\* one cycle of SessionCacheWriter.run up to the await of write_text:
\* needs_export, mark_auto_export_session, serialize_session_view (fails: it
\* raises), write_text begun; without changes the cycle only sleeps
SessionCacheWriter_run(view, w, fails) ==
    IF ~view.needs_export THEN [view |-> view, w |-> w]
    ELSE IF fails
    THEN [view |-> [view EXCEPT !.needs_export = FALSE],
          w |-> [w EXCEPT !.failed = TRUE]]
    ELSE [view |-> [view EXCEPT !.needs_export = FALSE],
          w |-> [w EXCEPT !.writing = {[cells |-> view.cells, raw |-> view.raw,
                                        requests |-> view.requests]}]]

\* SessionCacheManager.start(); path: self.path, "-" for None
SessionCacheManager_start(w, path) ==
    IF path = "-" THEN w
    ELSE [w EXCEPT !.view = w.mgr_view, !.path = path, !.writing = {},
                   !.failed = FALSE, !.tasks = IF @ < 2 THEN @ + 1 ELSE @,
                   !.gen = 1 - @]

\* SessionCacheManager.stop(): the writer's task is cancelled
SessionCacheManager_stop(w) ==
    IF w.view = "-" THEN w
    ELSE [w EXCEPT !.view = "-", !.writing = {}, !.failed = FALSE,
                   !.tasks = IF @ > 0 THEN @ - 1 ELSE @]

\* a rename_path that starts a writer for the new path and leaves the old
\* one running
SessionCacheManager_rename_path_NoStop(w, new_path) ==
    SessionCacheManager_start(w, new_path)

\* SessionCacheManager.rename_path(new_path)
SessionCacheManager_rename_path(w, new_path) ==
    SessionCacheManager_start(SessionCacheManager_stop(w), new_path)

(* ---------------------------- SessionManager --------------------------- *)
\* the record a call that returns None without raising leaves in mgrOp
NoMgrOp == [op |-> "-", ret |-> NoSession, raised |-> FALSE]

\* a Session object as the manager keeps it between calls: the outcome of the
\* last call on it is dropped, and the connection state of a consumer is kept
\* only while it is in the room
Stored(s) ==
    [s EXCEPT !.raised = FALSE, !.hooks = <<>>, !.disposed = <<>>, !.dropped = {},
              !.conn = [c \in Consumers |->
                           IF c \in Range(s.room.consumers) THEN @[c] ELSE CLOSED]]

\* Session.create / Session.__init__ for the consumer c and the file key
Session_create(c, key) ==
    Let(Session_connect_consumer(
            [main_consumer |-> None, consumers |-> <<>>, disposables |-> {}],
            <<ViewCallback>>, c, TRUE),
        LAMBDA r :
            [NoObject EXCEPT !.created = TRUE, !.path = key,
                             !.room = r.room, !.subs = r.subs,
                             !.conn = [d \in Consumers |-> IF d = c THEN OPEN ELSE CLOSED],
                             !.running = TRUE, !.heartbeat_task = "running",
                             !.kernel_alive = TRUE,
                             !.kernel_starts = KernelManager_start_kernel(@)])

\* the notebook file as app_file_manager.reload() finds it: the code of each
\* cell, and what reload() does: it raises, or returns the ids of the cells
\* whose code changed
Codes == {"old", "new"}
CellIds == <<"c1", "c2">>
ReloadRaises == <<"raises">>
Reloads == {ReloadRaises} \cup {<<>>, <<"c1">>, <<"c2">>, <<"c1", "c2">>, <<"c2", "c1">>}

\* one more message written to some consumers
AlsoWritten(ws, w) == [c \in Consumers |-> ws[c] \o w[c]]

\* a callback that signals a reload whatever the path and the outcome of
\* reload() are
SessionManager_on_file_changed_ReloadsAnyway(q, view, room, states, session_path, path, reload, autorun, codes) ==
    [control_queue |-> q.control_queue,
     set_ui_element_queue |-> q.set_ui_element_queue,
     view |-> view,
     written |-> Writes(Room_broadcast(room, None, states),
                        [kind |-> "Reload", cells |-> <<>>, status |-> "-"]),
     raised |-> FALSE, hooks |-> <<>>]

\* on_file_changed(path), the callback _start_file_watcher_for_session makes
\* for a session with the file session_path; q: the session's queues,
\* autorun: runtime.watcher_on_save is "autorun", codes: the code of each cell
\* after the reload
SessionManager_on_file_changed(q, view, room, states, session_path, path, reload, autorun, codes) ==
    IF session_path # path
    THEN [control_queue |-> q.control_queue,
          set_ui_element_queue |-> q.set_ui_element_queue,
          view |-> view, written |-> NoWrites, raised |-> FALSE, hooks |-> <<>>]
    ELSE IF reload = ReloadRaises
    THEN [control_queue |-> q.control_queue,
          set_ui_element_queue |-> q.set_ui_element_queue,
          view |-> view, written |-> NoWrites, raised |-> FALSE,
          hooks |-> <<"LOGGER.error">>]
    ELSE IF mode = RUN
    THEN Let(Session_write_operation(view, room,
                 [kind |-> "Reload", cells |-> <<>>, status |-> "-"], None, states),
             LAMBDA w :
                 [control_queue |-> q.control_queue,
                  set_ui_element_queue |-> q.set_ui_element_queue,
                  view |-> w.view,
                  written |-> Writes(w.written,
                                 [kind |-> "Reload", cells |-> <<>>, status |-> "-"]),
                  raised |-> FALSE, hooks |-> <<>>])
    ELSE Let(Session_write_operation(view, room,
                 [kind |-> "UpdateCellIdsRequest", cells |-> CellIds, status |-> "-"],
                 None, states),
             LAMBDA w1 :
         Let(Writes(w1.written, [kind |-> "UpdateCellIdsRequest", cells |-> CellIds,
                                 status |-> "-"]),
             LAMBDA written1 :
         IF autorun
         THEN Let(Session_put_control_request(q, w1.view, room,
                      [kind |-> "ExecuteMultipleRequest", cells |-> reload,
                       codes |-> [i \in 1..Len(reload) |-> codes[reload[i]]]],
                      None, states),
                  LAMBDA p :
                      [control_queue |-> p.control_queue,
                       set_ui_element_queue |-> p.set_ui_element_queue,
                       view |-> p.view,
                       written |-> AlsoWritten(written1, p.written),
                       raised |-> p.raised, hooks |-> <<>>])
         ELSE Let(Session_write_operation(w1.view, room,
                      [kind |-> "UpdateCellCodes", cells |-> CellIds, status |-> "stale"],
                      None, states),
                  LAMBDA w2 :
                      [control_queue |-> q.control_queue,
                       set_ui_element_queue |-> q.set_ui_element_queue,
                       view |-> w2.view,
                       written |-> AlsoWritten(written1,
                                      Writes(w2.written,
                                             [kind |-> "UpdateCellCodes",
                                              cells |-> CellIds, status |-> "stale"])),
                       raised |-> FALSE, hooks |-> <<>>])))

\* FileWatcherManager.add_callback(path, callback) and remove_callback(path,
\* callback) for the callback of the session s
FileWatcherManager_add_callback(s, path) == [s EXCEPT !.watched = @ \cup {path}]
FileWatcherManager_remove_callback(s, path) == [s EXCEPT !.watched = @ \ {path}]

\* SessionManager._start_file_watcher_for_session(session)
SessionManager_start_file_watcher_for_session(s) ==
    IF s.path = "-" THEN s ELSE FileWatcherManager_add_callback(s, s.path)

\* dict operations on self.sessions
Keys(ss) == {ss[i].id : i \in 1..Len(ss)}
Values(ss) == {ss[i].obj : i \in 1..Len(ss)}
DictGet(ss, id) ==
    IF id \in Keys(ss) THEN ss[CHOOSE i \in 1..Len(ss) : ss[i].id = id].obj ELSE NoSession
DictSet(ss, id, o) ==
    IF id \in Keys(ss)
    THEN [i \in 1..Len(ss) |-> IF ss[i].id = id THEN [id |-> id, obj |-> o] ELSE ss[i]]
    ELSE Append(ss, [id |-> id, obj |-> o])
DictDel(ss, id) == SelectSeq(ss, LAMBDA e : e.id # id)

\* a connection state that takes every session for an ORPHANED one
ConnectionStateOf_Orphaned(s) == ORPHANED

\* session.connection_state() of the session object s
ConnectionStateOf(s) == Session_connection_state(s.closed, s.room.main_consumer, s.conn)

\* SessionManager.get_session(session_id): the session object, or NoSession
SessionManager_get_session(ss, os, id) ==
    IF DictGet(ss, id) # NoSession THEN DictGet(ss, id)
    ELSE Let(SelectSeq(ss, LAMBDA e :
                 id \in {ConsumerIdOf(c) : c \in Range(os[e.obj].room.consumers)}),
             LAMBDA kiosk : IF kiosk # <<>> THEN kiosk[1].obj ELSE NoSession)

\* SessionManager.handle_file_rename_for_watch(session_id, prev_path, new_path)
\* after the caller has renamed the session's file; exists: os.path.exists(
\* new_path); W: the calls of the FileWatcherManager that raise ("remove": the
\* remove_callback, "add": the add_callback in the try block, "readd": the
\* add_callback in the except block); ret: NoSession for (False, message), the
\* session for (True, None)
SessionManager_handle_file_rename_for_watch(ss, os, id, prev_path, new_path, exists, W) ==
    Let(SessionManager_get_session(ss, os, id), LAMBDA o :
    IF o = NoSession \/ ~exists \/ os[o].path = "-"
    THEN [sessions |-> ss, objs |-> os, ret |-> NoSession, raised |-> FALSE]
    ELSE \* session_cache_manager.rename_path(new_path): stop(), start()
         Let([os[o] EXCEPT !.session_cache_manager = IF @ = None THEN @ ELSE "started"],
             LAMBDA s0 :
         IF ~watch
         THEN [sessions |-> ss, objs |-> [os EXCEPT ![o] = s0], ret |-> o, raised |-> FALSE]
         ELSE IF prev_path # "-" /\ "remove" \in W
         THEN \* except: the watcher is started again
              IF "readd" \in W
              THEN [sessions |-> ss, objs |-> [os EXCEPT ![o] = s0],
                    ret |-> NoSession, raised |-> TRUE]
              ELSE [sessions |-> ss,
                    objs |-> [os EXCEPT ![o] =
                                SessionManager_start_file_watcher_for_session(s0)],
                    ret |-> NoSession, raised |-> FALSE]
         ELSE Let(IF prev_path # "-"
                  THEN FileWatcherManager_remove_callback(s0, prev_path) ELSE s0,
                  LAMBDA s1 :
              IF "add" \in W
              THEN IF "readd" \in W
                   THEN [sessions |-> ss, objs |-> [os EXCEPT ![o] = s1],
                         ret |-> NoSession, raised |-> TRUE]
                   ELSE [sessions |-> ss,
                         objs |-> [os EXCEPT ![o] =
                                     SessionManager_start_file_watcher_for_session(s1)],
                         ret |-> NoSession, raised |-> FALSE]
              ELSE [sessions |-> ss,
                    objs |-> [os EXCEPT ![o] =
                                SessionManager_start_file_watcher_for_session(s1)],
                    ret |-> o, raised |-> FALSE])))

\* create_session that makes a session whether the id is in the map or not
SessionManager_create_session_AlwaysCreates(ss, os, id, c, key, o) ==
    IF o = NoSession
    THEN [sessions |-> ss, objs |-> os, ret |-> DictGet(ss, id), raised |-> FALSE]
    ELSE [sessions |-> DictSet(ss, id, o),
          objs |-> [os EXCEPT ![o] = Session_create(c, key)],
          ret |-> o, raised |-> FALSE]

\* SessionManager.create_session(session_id, session_consumer, _, file_key);
\* o: the Session object a creation makes
SessionManager_create_session(ss, os, id, c, key, o) ==
    IF id \notin Keys(ss)
    THEN [sessions |-> DictSet(ss, id, o),
          objs |-> [os EXCEPT ![o] =
                      IF watch
                      THEN SessionManager_start_file_watcher_for_session(
                               Session_create(c, key))
                      ELSE Session_create(c, key)],
          ret |-> o, raised |-> FALSE]
    ELSE [sessions |-> ss, objs |-> os, ret |-> DictGet(ss, id), raised |-> FALSE]

\* SessionManager.close_session(session_id); R: the consumers whose on_stop()
\* raises; ret: NoSession for False, the closed session for True
SessionManager_close_session(ss, os, id, R) ==
    Let(SessionManager_get_session(ss, os, id), LAMBDA o :
    IF o = NoSession
    THEN [sessions |-> ss, objs |-> os, ret |-> NoSession, raised |-> FALSE]
    ELSE Let(IF os[o].path # "-" /\ watch
             THEN FileWatcherManager_remove_callback(os[o], os[o].path)
             ELSE os[o], LAMBDA s0 :
         Let(Session_close(s0, R), LAMBDA s1 :
         IF s1.raised
         THEN [sessions |-> ss, objs |-> [os EXCEPT ![o] = Stored(s1)],
               ret |-> NoSession, raised |-> TRUE]
         ELSE [sessions |-> DictDel(ss, id), objs |-> [os EXCEPT ![o] = Stored(s1)],
               ret |-> o, raised |-> FALSE])))

RECURSIVE CloseEach(_, _, _)
\* session.close() for each of the sessions todo, up to the first that raises
CloseEach(acc, todo, R) ==
    IF todo = <<>> \/ acc.raised THEN acc
    ELSE Let(Session_close(acc.objs[Head(todo).obj], R), LAMBDA s1 :
         Let([objs |-> [acc.objs EXCEPT ![Head(todo).obj] = Stored(s1)],
              raised |-> s1.raised],
             LAMBDA acc1 : CloseEach(acc1, Tail(todo), R)))

\* SessionManager.close_all_sessions()
SessionManager_close_all_sessions(ss, os, R) ==
    Let(CloseEach([objs |-> os, raised |-> FALSE], ss, R), LAMBDA l :
        [sessions |-> IF l.raised THEN ss ELSE <<>>, objs |-> l.objs,
         ret |-> NoSession, raised |-> l.raised])

\* a selection that keeps the first session of the path only
SessionsWithTheSameFile_First(ss, os, key) ==
    Let(SelectSeq(ss, LAMBDA e : os[e.obj].path = key),
        LAMBDA same : IF same = <<>> THEN <<>> ELSE <<same[1]>>)

\* sessions_with_the_same_file: the entries of the map whose session has the
\* path of the file key
SessionsWithTheSameFile(ss, os, key) ==
    SelectSeq(ss, LAMBDA e : os[e.obj].path = key)

\* a re-keying that leaves the old id in the map
Rekey_KeepsOld(ss, new_id, id, o) == DictSet(ss, new_id, o)

\* the map after `self.sessions[new_session_id] = session` and the deletion of
\* the old id when it differs
Rekey(ss, new_id, id, o) ==
    IF new_id # id THEN DictDel(DictSet(ss, new_id, o), id)
    ELSE DictSet(ss, new_id, o)

\* a cleanup loop that closes nothing
CleanupDead_Skips(acc, todo, R) == acc

\* SessionManager.shutdown(): close_all_sessions(), then (lsp_server.stop()
\* and) watcher_manager.stop_all(), which drops every registration
SessionManager_shutdown(ss, os, R) ==
    Let(SessionManager_close_all_sessions(ss, os, R), LAMBDA l :
        IF l.raised THEN l
        ELSE [l EXCEPT !.objs = [o \in DOMAIN l.objs |->
                                    [l.objs[o] EXCEPT !.watched = {}]]])

RECURSIVE CleanupDead(_, _, _)
\* the cleanup loop of maybe_resume_session over the entries todo:
\* close_session for every session whose kernel task is not alive
CleanupDead(acc, todo, R) ==
    IF todo = <<>> \/ acc.raised THEN acc
    ELSE IF acc.objs[Head(todo).obj].kernel_alive
    THEN CleanupDead(acc, Tail(todo), R)
    ELSE Let(SessionManager_close_session(acc.sessions, acc.objs, Head(todo).id, R),
             LAMBDA acc1 : CleanupDead(acc1, Tail(todo), R))

\* SessionManager.maybe_resume_session(new_session_id, file_key);
\* raised: "" when it returns, else the exception
SessionManager_maybe_resume_session(ss, os, new_id, key, R) ==
    IF mode = RUN
    THEN Let(SessionManager_get_session(ss, os, new_id), LAMBDA o :
         [sessions |-> ss, objs |-> os, raised |-> FALSE,
          ret |-> IF o # NoSession /\ ConnectionStateOf(os[o]) = ORPHANED
                  THEN o ELSE NoSession])
    ELSE Let(CleanupDead([sessions |-> ss, objs |-> os, ret |-> NoSession,
                          raised |-> FALSE], ss, R), LAMBDA g :
         IF g.raised
         THEN [sessions |-> g.sessions, objs |-> g.objs, ret |-> NoSession, raised |-> TRUE]
         ELSE Let(SessionsWithTheSameFile(g.sessions, g.objs, key), LAMBDA same :
              IF Len(same) = 0
              THEN [sessions |-> g.sessions, objs |-> g.objs, ret |-> NoSession,
                    raised |-> FALSE]
              ELSE IF Len(same) > 1
              THEN \* InvalidSessionException
                   [sessions |-> g.sessions, objs |-> g.objs, ret |-> NoSession,
                    raised |-> TRUE]
              ELSE IF ConnectionStateOf(g.objs[same[1].obj]) = ORPHANED
              THEN [sessions |-> Rekey(g.sessions, new_id, same[1].id, same[1].obj),
                    objs |-> g.objs, ret |-> same[1].obj, raised |-> FALSE]
              ELSE [sessions |-> g.sessions, objs |-> g.objs, ret |-> NoSession,
                    raised |-> FALSE]))

(* ------------------------------ bookkeeping ---------------------------- *)
\* connection states after a step: a consumer entering the room is OPEN; the
\* state of a consumer outside the room is never read and is kept at CLOSED
NormConn(new_consumers) ==
    [c \in Consumers |->
        IF c \in Range(new_consumers)
        THEN IF c \in Range(consumers) THEN conn[c] ELSE OPEN
        ELSE CLOSED]

\* receive logs after a step: the log of a consumer without subscription is dropped
NormReceived(new_subs, log) ==
    [c \in Consumers |-> IF c \in Range(new_subs) THEN log[c] ELSE <<>>]

NormJoined(new_subs, j) ==
    [c \in Consumers |-> IF c \in Range(new_subs) THEN j[c] ELSE 0]

\* fate of the disposables after a step that invoked some and dropped others
NormDisposal(disposed, dropped) ==
    [c \in Consumers |->
        IF c \in Range(disposed) THEN "invoked"
        ELSE IF c \in dropped THEN "dropped"
        ELSE disposal[c]]

\* the variables take the values of the session state s that close() produced
Becomes(s) ==
    /\ closed' = s.closed
    /\ main_consumer' = s.room.main_consumer
    /\ consumers' = s.room.consumers
    /\ disposables' = s.room.disposables
    /\ conn' = NormConn(s.room.consumers)
    /\ subs' = s.subs
    /\ running' = s.running
    /\ received' = NormReceived(s.subs, received)
    /\ joined_at' = NormJoined(s.subs, joined_at)
    /\ heartbeat_task' = s.heartbeat_task
    /\ control_queue' = s.control_queue
    /\ queues_closed' = s.queues_closed
    /\ kernel_alive' = s.kernel_alive
    /\ kernel_closes' = s.kernel_closes
    /\ terminated' = s.terminated
    /\ pc' = s.pc
    /\ kernel_starts' = s.kernel_starts
    /\ session_cache_manager' = s.session_cache_manager
    /\ session_cache_writer' =
           IF s.session_cache_manager = "stopped" /\ session_cache_manager # "stopped"
           THEN SessionCacheManager_stop(session_cache_writer)
           ELSE session_cache_writer
    /\ watched' = watched
    /\ disposal' = NormDisposal(s.disposed, s.dropped)

(* -------------------------------- Init --------------------------------- *)
\* the state Session.__init__ leaves: kernel started, the Session View's
\* callback and the main consumer subscribed, read loop and heartbeat started;
\* the session is constructed with the consumer A (the consumers are alike)
Init ==
    /\ mode \in {EDIT, RUN}
    /\ profile_path \in (IF mode = EDIT THEN BOOLEAN ELSE {FALSE})
    /\ \E c \in {"A"} :
          LET r == Session_connect_consumer(
                       [main_consumer |-> None, consumers |-> <<>>, disposables |-> {}],
                       <<ViewCallback>>, c, TRUE)
          IN  /\ main_consumer = r.room.main_consumer
              /\ consumers = r.room.consumers
              /\ disposables = r.room.disposables
              /\ subs = r.subs
              /\ conn = [d \in Consumers |-> IF d \in Range(r.room.consumers)
                                             THEN OPEN ELSE CLOSED]
              /\ disposal = [d \in Consumers |-> IF d \in r.room.disposables
                                                 THEN "held" ELSE "none"]
    /\ running = TRUE
    /\ emitted = 0
    /\ delivered = 0
    /\ received = [c \in Consumers |-> <<>>]
    /\ joined_at = [c \in Consumers |-> 0]
    /\ session_view = [cells |-> [c \in Cells |-> "-"], raw |-> <<>>, requests |-> <<>>,
                     needs_export |-> FALSE, object |-> "original"]
    /\ control_queue = <<>>
    /\ set_ui_element_queue = <<>>
    /\ queues_closed = FALSE
    /\ closed = FALSE
    /\ heartbeat_task = "running"
    /\ kernel_alive = TRUE
    /\ kernel_closes = 0
    /\ terminated = FALSE
    /\ profile_exists = FALSE
    /\ pc = "idle"
    /\ written = NoWrites
    /\ lastOp = NoOp
    /\ kernel_starts = KernelManager_start_kernel(0)
    /\ session_cache_manager = None
    /\ watched = {}
    /\ session_cache_writer = NoWriter
    /\ cache = NoCache
    /\ sessions = <<>>
    /\ objs = [o \in Objs |-> NoObject]
    /\ watch = FALSE
    /\ mgrOp = NoMgrOp

(* ------------------------------- actions ------------------------------- *)
\* a name the session holds no reference to stands for a new consumer object
Fresh(c) ==
    /\ c \notin Range(consumers)
    /\ c \notin disposables
    /\ c \notin Range(subs)

\* Session.connect_consumer(c, main=main); every connection brings its own,
\* new consumer object
ConnectConsumer(c, main) ==
    /\ pc = "idle"
    /\ Fresh(c)
    /\ LET r == Session_connect_consumer(Room, subs, c, main)
       IN  /\ main_consumer' = r.room.main_consumer
           /\ consumers' = r.room.consumers
           /\ disposables' = r.room.disposables
           /\ subs' = r.subs
           /\ conn' = NormConn(r.room.consumers)
           /\ received' = NormReceived(r.subs, [received EXCEPT ![c] = <<>>])
           /\ joined_at' = NormJoined(r.subs, [joined_at EXCEPT ![c] = delivered])
           /\ disposal' = [disposal EXCEPT ![c] = IF c \in r.room.disposables
                                                  THEN "held" ELSE @]
           /\ lastOp' = [NoOp EXCEPT !.raised = r.raised]
    /\ written' = NoWrites
    /\ UNCHANGED <<lifeVars, mgrVars, configVars, running, emitted, delivered, session_view,
                   queueVars, closed, heartbeat_task, kernelVars, pc>>

\* the effect of Room.remove_consumer(c) on the session
RemoveConsumer(c, stop_raises) ==
    LET r == Room_remove_consumer(Room, c, stop_raises)
        subs1 == RemoveAll(subs, r.disposed)
    IN  /\ main_consumer' = r.room.main_consumer
        /\ consumers' = r.room.consumers
        /\ disposables' = r.room.disposables
        /\ subs' = subs1
        /\ conn' = NormConn(r.room.consumers)
        /\ received' = NormReceived(subs1, received)
        /\ joined_at' = NormJoined(subs1, joined_at)
        /\ disposal' = NormDisposal(r.disposed, {})
        /\ lastOp' = [NoOp EXCEPT !.raised = r.raised, !.hooks = r.hooks]
        /\ written' = NoWrites
        /\ UNCHANGED <<lifeVars, mgrVars, configVars, running, emitted, delivered, session_view,
                       queueVars, closed, heartbeat_task, kernelVars, pc>>

\* Session.disconnect_consumer(c)
DisconnectConsumer(c, stop_raises) ==
    /\ pc = "idle"
    /\ RemoveConsumer(c, stop_raises)

\* Session.maybe_disconnect_consumer()
MaybeDisconnectConsumer(stop_raises) ==
    /\ pc = "idle"
    /\ IF main_consumer # None
       THEN RemoveConsumer(main_consumer, stop_raises)
       ELSE /\ lastOp' = NoOp
            /\ written' = NoWrites
            /\ UNCHANGED <<lifeVars, mgrVars, configVars, roomVars, conn, distVars, streamVars,
                           session_view, queueVars, closed, heartbeat_task,
                           kernelVars, pc, disposal>>

\* Session.write_operation(operation, from_consumer_id)
WriteOperation(operation, from) ==
    /\ pc = "idle"
    /\ LET r == Session_write_operation(session_view, Room, operation, from, conn)
       IN  /\ session_view' = r.view
           /\ written' = Writes(r.written, operation)
    /\ lastOp' = NoOp
    /\ UNCHANGED <<lifeVars, mgrVars, configVars, roomVars, conn, distVars, streamVars, queueVars,
                   closed, heartbeat_task, kernelVars, pc, disposal>>

\* Session.put_control_request(request, from_consumer_id)
PutControlRequest(request, from) ==
    /\ pc = "idle"
    /\ Len(session_view.requests) < MaxQueue
    /\ LET r == Session_put_control_request(
                    [control_queue |-> control_queue,
                     set_ui_element_queue |-> set_ui_element_queue,
                     queues_closed |-> queues_closed],
                    session_view, Room, request, from, conn)
       IN  /\ control_queue' = r.control_queue
           /\ set_ui_element_queue' = r.set_ui_element_queue
           /\ session_view' = r.view
           /\ written' = r.written
           /\ lastOp' = [NoOp EXCEPT !.raised = r.raised]
    /\ UNCHANGED <<lifeVars, mgrVars, configVars, roomVars, conn, distVars, streamVars,
                   queues_closed, closed, heartbeat_task, kernelVars, pc, disposal>>

\* the path of the session's file (app_file_manager.path)
SessionPath == "f.py"

\* Session.sync_session_view_from_cache() (called once, after the session is
\* created): makes the SessionCacheManager on the session's view, takes the
\* view read_session_view returns and starts the writer; file,
\* notebook_session: what is at the place of the cache file; key: the codes of
\* the notebook and the version
SyncSessionViewFromCache(file, notebook_session, key) ==
    /\ pc = "idle"
    /\ session_cache_manager = None
    /\ \E r \in {SessionCacheManager_read_session_view(file, notebook_session, key)} :
       \E w \in {[session_cache_writer EXCEPT !.mgr_view = session_view.object]} :
          IF r.raised
          THEN /\ session_cache_manager' = "created"
               /\ session_cache_writer' = w
               /\ session_view' = session_view
               /\ lastOp' = [NoOp EXCEPT !.raised = TRUE]
          ELSE /\ session_cache_manager' = "started"
               /\ session_view' =
                      IF r.view = "deserialized"
                      THEN [cells |-> [c \in Cells |-> "idle"], raw |-> <<>>,
                            requests |-> <<>>, needs_export |-> FALSE,
                            object |-> "deserialized"]
                      ELSE session_view
               /\ session_cache_writer' =
                      SessionCacheManager_start(
                          [w EXCEPT !.mgr_view = session_view'.object],
                          IF file = "no_path" THEN "-" ELSE SessionPath)
               /\ lastOp' = NoOp
    /\ written' = NoWrites
    /\ UNCHANGED <<mgrVars, configVars, roomVars, conn, distVars, streamVars,
                   queueVars, closed, heartbeat_task, kernelVars,
                   pc, disposal, kernel_starts, watched>>

\* SessionCacheManager.rename_path(new_path), which
\* handle_file_rename_for_watch calls on a session that has a cache manager
RenamePath(new_path) ==
    /\ pc = "idle"
    /\ session_cache_manager # None
    /\ session_cache_manager' = "started"
    /\ session_cache_writer' =
           SessionCacheManager_rename_path(session_cache_writer, new_path)
    /\ lastOp' = NoOp
    /\ written' = NoWrites
    /\ UNCHANGED <<mgrVars, configVars, roomVars, conn, distVars, streamVars,
                   session_view, queueVars, closed, heartbeat_task, kernelVars,
                   pc, disposal, kernel_starts, watched>>

\* one cycle of the writer's run loop, up to the await of write_text
WriterCycle(fails) ==
    /\ session_cache_writer.tasks > 0
    /\ ~session_cache_writer.failed
    /\ session_cache_writer.writing = {}
    /\ \E r \in {SessionCacheWriter_run(session_view, session_cache_writer, fails)} :
          /\ session_view' = r.view
          /\ session_cache_writer' = r.w
    /\ lastOp' = NoOp
    /\ written' = NoWrites
    /\ UNCHANGED <<mgrVars, configVars, roomVars, conn, distVars, streamVars,
                   queueVars, closed, heartbeat_task, kernelVars,
                   pc, disposal, kernel_starts, session_cache_manager, watched>>

\* the write_text the run loop awaits ends: the document is in the cache file
\* (ok), or it raises and the loop is left
WriterWrite(ok) ==
    /\ session_cache_writer.tasks > 0
    /\ session_cache_writer.writing # {}
    /\ session_cache_writer' =
           IF ok
           THEN [session_cache_writer EXCEPT
                    !.wrote[session_cache_writer.path] = session_cache_writer.writing,
                    !.writing = {}]
           ELSE [session_cache_writer EXCEPT !.writing = {}, !.failed = TRUE]
    /\ lastOp' = NoOp
    /\ written' = NoWrites
    /\ UNCHANGED <<mgrVars, configVars, roomVars, conn, distVars, streamVars,
                   session_view, queueVars, closed, heartbeat_task, kernelVars,
                   pc, disposal, kernel_starts, session_cache_manager, watched>>

\* _start_file_watcher_for_session(session), which create_session calls for
\* the session it has just made when the manager watches files
StartFileWatcher ==
    /\ pc = "idle"
    /\ ~closed
    /\ watched = {}
    /\ watched' = SessionManager_start_file_watcher_for_session(
                      [path |-> SessionPath, watched |-> watched]).watched
    /\ lastOp' = NoOp
    /\ written' = NoWrites
    /\ UNCHANGED <<mgrVars, configVars, roomVars, conn, distVars, streamVars,
                   session_view, queueVars, closed, heartbeat_task, kernelVars,
                   pc, disposal, kernel_starts, session_cache_manager,
                   session_cache_writer>>

\* the file watcher calls the session's on_file_changed(path)
OnFileChanged(path, reload, autorun, codes) ==
    /\ pc = "idle"
    /\ watched # {}
    /\ Len(session_view.requests) < MaxQueue
    /\ \E r \in {SessionManager_on_file_changed(
                     [control_queue |-> control_queue,
                      set_ui_element_queue |-> set_ui_element_queue,
                      queues_closed |-> queues_closed],
                     session_view, Room, conn, SessionPath, path, reload, autorun,
                     codes)} :
          /\ control_queue' = r.control_queue
          /\ set_ui_element_queue' = r.set_ui_element_queue
          /\ session_view' = r.view
          /\ written' = r.written
          /\ lastOp' = [raised |-> r.raised, hooks |-> r.hooks]
    /\ UNCHANGED <<lifeVars, mgrVars, configVars, roomVars, conn, distVars, streamVars,
                   queues_closed, closed, heartbeat_task, kernelVars, pc, disposal>>

\* Session.close(); R: the consumers whose on_stop() raises
Close(R) ==
    /\ pc = "idle"
    /\ \E s0 \in {Sess} : \E s \in {Session_close(s0, R)} :
           /\ Becomes(s)
           /\ lastOp' = [NoOp EXCEPT !.raised = s.raised,
                                     !.hooks = s.hooks]
    /\ written' = NoWrites
    /\ UNCHANGED <<mgrVars, configVars, emitted, delivered, session_view,
                   set_ui_element_queue, profile_exists>>

\* one period of Session._start_heartbeat._heartbeat: sleep, _check_alive()
HeartbeatTick(R) ==
    /\ pc = "idle"
    /\ heartbeat_task = "running"
    /\ \E s0 \in {Sess} : \E s \in {Session_check_alive(s0, R)} :
           /\ Becomes(s)
           /\ lastOp' = [NoOp EXCEPT !.raised = s.raised,
                                     !.hooks = s.hooks]
    /\ written' = NoWrites
    /\ UNCHANGED <<mgrVars, configVars, emitted, delivered, session_view,
                   set_ui_element_queue, profile_exists>>

\* close_kernel leaves its wait for the profile file and finishes
CloseResume ==
    /\ pc = "close_wait"
    /\ profile_exists
    /\ \E s0 \in {Sess} : \E s \in {KernelManager_close_kernel_tail(s0)} : Becomes(s)
    /\ lastOp' = NoOp
    /\ written' = NoWrites
    /\ UNCHANGED <<mgrVars, configVars, emitted, delivered, session_view,
                   set_ui_element_queue, profile_exists>>

(* ----------------------------- environment ----------------------------- *)
\* the kernel writes its next message to its stream
KernelEmit ==
    /\ kernel_alive
    /\ emitted < MaxMsgs
    /\ emitted' = emitted + 1
    /\ lastOp' = NoOp
    /\ written' = NoWrites
    /\ UNCHANGED <<lifeVars, mgrVars, configVars, roomVars, conn, distVars, delivered, received,
                   joined_at, session_view, queueVars, closed, heartbeat_task,
                   kernelVars, pc, disposal>>

\* the distributor's read loop takes the next message and calls every
\* registered callback with it, in registration order
DistributorRead ==
    /\ pc = "idle"
    /\ running
    /\ delivered < emitted
    /\ LET m == delivered + 1
       IN  /\ delivered' = m
           /\ session_view' = IF ViewCallback \in Range(subs)
                              THEN SessionView_add_raw_operation(session_view, m)
                              ELSE session_view
           /\ received' = [c \in Consumers |->
                              received[c] \o Repeat(m, Count(subs, c))]
    /\ lastOp' = NoOp
    /\ written' = NoWrites
    /\ UNCHANGED <<lifeVars, mgrVars, configVars, roomVars, conn, distVars, emitted, joined_at,
                   queueVars, closed, heartbeat_task, kernelVars, pc, disposal>>

\* the kernel dies unexpectedly
KernelDies ==
    /\ kernel_alive
    /\ kernel_alive' = FALSE
    /\ lastOp' = NoOp
    /\ written' = NoWrites
    /\ UNCHANGED <<lifeVars, mgrVars, configVars, roomVars, conn, distVars, streamVars,
                   session_view, queueVars, closed, heartbeat_task,
                   kernel_closes, terminated, profile_exists, pc, disposal>>

\* the kernel takes the StopRequest and exits, writing the profile if asked to
KernelExits ==
    /\ kernel_alive
    /\ StopRequest \in Range(control_queue)
    /\ kernel_alive' = FALSE
    /\ profile_exists' = profile_path
    /\ lastOp' = NoOp
    /\ written' = NoWrites
    /\ UNCHANGED <<lifeVars, mgrVars, configVars, roomVars, conn, distVars, streamVars,
                   session_view, queueVars, closed, heartbeat_task,
                   kernel_closes, terminated, pc, disposal>>

\* a consumer in the room changes what its connection_state() returns
ConsumerStateChange(c, st) ==
    /\ c \in Range(consumers)
    /\ st # conn[c]
    /\ conn' = [conn EXCEPT ![c] = st]
    /\ lastOp' = NoOp
    /\ written' = NoWrites
    /\ UNCHANGED <<lifeVars, mgrVars, configVars, roomVars, distVars, streamVars, session_view,
                   queueVars, closed, heartbeat_task, kernelVars, pc, disposal>>

(* ------------------------ SessionManager actions ----------------------- *)
\* a name no session of the manager holds a reference to stands for a new
\* consumer object
MgrFresh(c) ==
    \A o \in Objs : /\ c \notin Range(objs[o].room.consumers)
                    /\ c \notin objs[o].room.disposables
                    /\ c \notin Range(objs[o].subs)

\* a Session object the manager's map does not hold any more: what is kept of
\* it is its file, whether it was closed, the state of its kernel and of its
\* control queue and the registrations of its file-watcher callback
Dropped(s) ==
    [NoObject EXCEPT !.created = s.created, !.closed = s.closed, !.path = s.path,
                     !.control_queue = s.control_queue,
                     !.queues_closed = s.queues_closed,
                     !.kernel_alive = s.kernel_alive,
                     !.kernel_starts = s.kernel_starts,
                     !.kernel_closes = s.kernel_closes,
                     !.watched = s.watched]

\* the state after a SessionManager call with the outcome r
MgrBecomes(op, r) ==
    /\ sessions' = r.sessions
    /\ objs' = [o \in Objs |-> IF o \in Values(r.sessions)
                               THEN r.objs[o] ELSE Dropped(r.objs[o])]
    /\ mgrOp' = [op |-> op, ret |-> r.ret, raised |-> r.raised]
    /\ UNCHANGED <<watch, sessionVars>>

\* the Session object the next creation makes
NextObj == IF \E o \in Objs : ~objs[o].created
           THEN CHOOSE o \in Objs : ~objs[o].created /\ \A q \in 1..(o - 1) : objs[q].created
           ELSE NoSession

\* create_session(id, c, _, key) for a client whose consumer c carries the
\* session id as its consumer id
CreateSession(id, c, key) ==
    /\ ConsumerIdOf(c) = id
    /\ MgrFresh(c)
    /\ id \in Keys(sessions) \/ NextObj # NoSession
    /\ \E r \in {SessionManager_create_session(sessions, objs, id, c, key, NextObj)} :
           MgrBecomes("create_session", r)

\* maybe_resume_session(new_id, key)
MaybeResumeSession(new_id, key, R) ==
    \E r \in {SessionManager_maybe_resume_session(sessions, objs, new_id, key, R)} :
        MgrBecomes("maybe_resume_session", r)

\* close_session(id)
CloseSession(id, R) ==
    \E r \in {SessionManager_close_session(sessions, objs, id, R)} :
        MgrBecomes("close_session", r)

\* close_all_sessions()
CloseAllSessions(R) ==
    \E r \in {SessionManager_close_all_sessions(sessions, objs, R)} :
        MgrBecomes("close_all_sessions", r)

\* Session.connect_consumer(c, main=main) on the session object o; the callers
\* reach a session through the manager's map, and connect a main consumer to a
\* session whose main slot is empty
MgrConnect(o, c, main) ==
    /\ o \in Values(sessions)
    /\ main => objs[o].room.main_consumer = None
    /\ MgrFresh(c)
    /\ \E r \in {Session_connect_consumer(objs[o].room, objs[o].subs, c, main)} :
          /\ objs' = [objs EXCEPT ![o] = Stored([@ EXCEPT !.room = r.room,
                                                          !.subs = r.subs,
                                                          !.conn[c] = OPEN])]
          /\ mgrOp' = [NoMgrOp EXCEPT !.raised = r.raised]
    /\ UNCHANGED <<sessions, watch, sessionVars>>

\* Session.disconnect_consumer(c) on the session object o
MgrDisconnect(o, c) ==
    /\ o \in Values(sessions)
    /\ c \in Range(objs[o].room.consumers)
    /\ \E r \in {Room_remove_consumer(objs[o].room, c, FALSE)} :
          /\ objs' = [objs EXCEPT ![o] = Stored([@ EXCEPT !.room = r.room,
                                                          !.subs = RemoveAll(@, r.disposed)])]
          /\ mgrOp' = [NoMgrOp EXCEPT !.raised = r.raised]
    /\ UNCHANGED <<sessions, watch, sessionVars>>

\* the kernel of the session object o dies
MgrKernelDies(o) ==
    /\ o \in Values(sessions)
    /\ objs[o].kernel_alive
    /\ objs' = [objs EXCEPT ![o].kernel_alive = FALSE]
    /\ mgrOp' = NoMgrOp
    /\ UNCHANGED <<sessions, watch, sessionVars>>

\* one period of the heartbeat of the session object o
MgrHeartbeat(o, R) ==
    /\ o \in Values(sessions)
    /\ objs[o].heartbeat_task = "running"
    /\ \E s \in {Session_check_alive(objs[o], R)} :
          /\ objs' = [objs EXCEPT ![o] = Stored(s)]
          /\ mgrOp' = [NoMgrOp EXCEPT !.raised = s.raised]
    /\ UNCHANGED <<sessions, watch, sessionVars>>

\* rename_file: the session's file is renamed to new_path
\* (app_file_manager.rename) and handle_file_rename_for_watch(id, prev_path,
\* new_path) is called; for an id that matches no session the call alone
HandleFileRenameForWatch(id, new_path, exists, W) ==
    \E o \in {SessionManager_get_session(sessions, objs, id)} :
    \E os \in {IF o = NoSession THEN objs ELSE [objs EXCEPT ![o].path = new_path]} :
    \E r \in {SessionManager_handle_file_rename_for_watch(
                  sessions, os, id, IF o = NoSession THEN "-" ELSE objs[o].path,
                  new_path, exists, W)} :
        MgrBecomes("handle_file_rename_for_watch", r)

\* the main consumer of the session object o changes what its
\* connection_state() returns (its websocket is closing or closed)
MgrConsumerStateChange(o, st) ==
    /\ o \in Values(sessions)
    /\ objs[o].room.main_consumer # None
    /\ st # objs[o].conn[objs[o].room.main_consumer]
    /\ objs' = [objs EXCEPT ![o].conn[objs[o].room.main_consumer] = st]
    /\ mgrOp' = NoMgrOp
    /\ UNCHANGED <<sessions, watch, sessionVars>>

\* shutdown()
Shutdown(R) ==
    \E r \in {SessionManager_shutdown(sessions, objs, R)} : MgrBecomes("shutdown", r)

\* the file watcher sees the file key change and calls the on_file_changed
\* callback registered under it for the session object o; of what the callback
\* does to the session the manager's view of it keeps the control queue
MgrFileChanged(o, key, reload, autorun) ==
    /\ key \in objs[o].watched
    /\ Len(objs[o].control_queue) < MaxQueue
    /\ \E r \in {SessionManager_on_file_changed(
                     [control_queue |-> objs[o].control_queue,
                      set_ui_element_queue |-> <<>>,
                      queues_closed |-> objs[o].queues_closed],
                     [cells |-> [c \in Cells |-> "-"], raw |-> <<>>, requests |-> <<>>,
                     needs_export |-> FALSE, object |-> "original"],
                     objs[o].room, objs[o].conn, objs[o].path, key, reload, autorun,
                     [c \in Cells |-> "new"])} :
          /\ objs' = [objs EXCEPT ![o].control_queue = r.control_queue]
          /\ mgrOp' = [op |-> "on_file_changed",
                       ret |-> IF reload = ReloadRaises THEN NoSession ELSE o,
                       raised |-> r.raised]
    /\ UNCHANGED <<sessions, watch, sessionVars>>

\* SessionCacheManager.is_cache_hit on the document and the key
IsCacheHit ==
    /\ cache.op = "-"
    /\ cache.file = "document"
    /\ \E r \in {SessionCacheManager_is_cache_hit(cache.notebook_session, cache.key)} :
          cache' = [cache EXCEPT !.op = "is_cache_hit", !.ret = r.ret,
                                 !.raised = r.raised]
    /\ UNCHANGED <<mode, profile_path, main_consumer, consumers, disposables, conn,
                   subs, running, emitted, delivered, received, joined_at,
                   session_view, control_queue, set_ui_element_queue, queues_closed,
                   closed, heartbeat_task, kernel_alive, kernel_closes, terminated,
                   profile_exists, pc, disposal, written, lastOp, lifeVars,
                   sessions, objs, watch, mgrOp>>

\* SessionCacheManager.read_session_view(key)
ReadSessionView ==
    /\ cache.op = "-"
    /\ \E r \in {SessionCacheManager_read_session_view(
                     cache.file, cache.notebook_session, cache.key)} :
          cache' = [cache EXCEPT !.op = "read_session_view", !.view = r.view,
                                 !.raised = r.raised]
    /\ UNCHANGED <<mode, profile_path, main_consumer, consumers, disposables, conn,
                   subs, running, emitted, delivered, received, joined_at,
                   session_view, control_queue, set_ui_element_queue, queues_closed,
                   closed, heartbeat_task, kernel_alive, kernel_closes, terminated,
                   profile_exists, pc, disposal, written, lastOp, lifeVars,
                   sessions, objs, watch, mgrOp>>

\* the sets of consumers whose on_stop() raises during one manager call: none,
\* or the kiosk consumer
MgrRaisers == {{}, {"C"}}

\* the sets of consumers whose on_stop() raises during one close(): the loop of
\* Room.close ends at the first consumer that raises, so one raiser at most
\* gives every outcome
Raisers == {{}} \cup {{c} : c \in Range(consumers)}

(* --------------------------- specifications ---------------------------- *)
\* the calls that change the room and the session's lifecycle
Lifecycle ==
    \/ SyncSessionViewFromCache("absent", NotebookSession(<<>>, "v1", ""),
                                SessionCacheKey(<<>>, "v1"))
    \/ \E c \in Consumers, main \in BOOLEAN : ConnectConsumer(c, main)
    \/ \E c \in Consumers, stop_raises \in BOOLEAN : DisconnectConsumer(c, stop_raises)
    \/ \E stop_raises \in BOOLEAN : MaybeDisconnectConsumer(stop_raises)
    \/ \E R \in Raisers : Close(R)
    \/ \E R \in Raisers : HeartbeatTick(R)
    \/ CloseResume
    \/ KernelDies
    \/ KernelExits

Next == Lifecycle

Spec == Init /\ [][Next]_vars

\* a SessionManager before any session is created; the variables of the
\* single session stay at rest
ManagerAtRest ==
    /\ mode \in {EDIT, RUN}
    /\ profile_path = FALSE
    /\ main_consumer = None
    /\ consumers = <<>>
    /\ disposables = {}
    /\ conn = [c \in Consumers |-> CLOSED]
    /\ subs = <<>>
    /\ running = FALSE
    /\ emitted = 0
    /\ delivered = 0
    /\ received = [c \in Consumers |-> <<>>]
    /\ joined_at = [c \in Consumers |-> 0]
    /\ session_view = [cells |-> [c \in Cells |-> "-"], raw |-> <<>>, requests |-> <<>>,
                     needs_export |-> FALSE, object |-> "original"]
    /\ control_queue = <<>>
    /\ set_ui_element_queue = <<>>
    /\ queues_closed = FALSE
    /\ closed = FALSE
    /\ heartbeat_task = "-"
    /\ kernel_alive = FALSE
    /\ kernel_closes = 0
    /\ terminated = FALSE
    /\ profile_exists = FALSE
    /\ pc = "idle"
    /\ disposal = [c \in Consumers |-> "none"]
    /\ written = NoWrites
    /\ lastOp = NoOp
    /\ kernel_starts = 0
    /\ session_cache_manager = None
    /\ watched = {}
    /\ session_cache_writer = NoWriter
    /\ cache = NoCache
    /\ sessions = <<>>
    /\ objs = [o \in Objs |-> NoObject]
    /\ mgrOp = NoMgrOp

\* a SessionManager made with watch=False, the default
InitManager == ManagerAtRest /\ watch = FALSE

\* clients A and B open sessions and reconnect as main consumers, C joins
\* sessions as a kiosk consumer
NextManager ==
    \/ \E c \in {"A", "B"}, key \in FileKeys : CreateSession(ConsumerIdOf(c), c, key)
    \/ \E id \in SessionIds, key \in FileKeys : MaybeResumeSession(id, key, {})
    \/ \E id \in SessionIds, R \in MgrRaisers : CloseSession(id, R)
    \/ CloseAllSessions({})
    \/ \E o \in Objs, c \in {"A", "B"} : MgrConnect(o, c, TRUE)
    \/ \E o \in Objs : MgrConnect(o, "C", FALSE)
    \/ \E o \in Objs, c \in Consumers : MgrDisconnect(o, c)
    \/ \E o \in Objs : MgrKernelDies(o)
    \/ \E o \in Objs : MgrHeartbeat(o, {})

SpecManager == InitManager /\ [][NextManager]_vars

\* clients A and B open sessions, their connections degrade or they leave,
\* and they come back to resume
NextResume ==
    \/ \E c \in {"A", "B"}, key \in FileKeys : CreateSession(ConsumerIdOf(c), c, key)
    \/ \E o \in Objs, st \in ConnectionState : MgrConsumerStateChange(o, st)
    \/ \E o \in Objs, c \in {"A", "B"} : MgrDisconnect(o, c)
    \/ \E id \in SessionIds, key \in FileKeys : MaybeResumeSession(id, key, {})
    \/ \E id \in SessionIds : CloseSession(id, {})

SpecResume == InitManager /\ [][NextResume]_vars

\* a SessionManager made with watch=True
InitWatch == ManagerAtRest /\ watch = TRUE

\* clients A and B open sessions and leave them, the watched files change
NextWatch ==
    \/ \E c \in {"A", "B"}, key \in FileKeys : CreateSession(ConsumerIdOf(c), c, key)
    \/ \E id \in SessionIds, key \in FileKeys : MaybeResumeSession(id, key, {})
    \/ \E id \in SessionIds : CloseSession(id, {})
    \/ CloseAllSessions({})
    \/ Shutdown({})
    \/ \E o \in Objs, c \in {"A", "B"} : MgrDisconnect(o, c)
    \/ \E o \in Objs : MgrKernelDies(o)
    \/ \E o \in Objs : MgrHeartbeat(o, {})
    \/ \E o \in Objs, key \in FileKeys, reload \in {ReloadRaises, <<"c1">>},
          autorun \in BOOLEAN : MgrFileChanged(o, key, reload, autorun)

SpecWatch == InitWatch /\ [][NextWatch]_vars

\* clients A and B open sessions, rename their files and close the sessions
\* under a manager that watches files
NextRename ==
    \/ \E c \in {"A", "B"}, key \in FileKeys : CreateSession(ConsumerIdOf(c), c, key)
    \/ \E id \in SessionIds, new_path \in FileKeys, exists \in BOOLEAN,
          W \in SUBSET {"remove", "add", "readd"} :
              HandleFileRenameForWatch(id, new_path, exists, W)
    \/ \E id \in SessionIds : CloseSession(id, {})

SpecRename == InitWatch /\ [][NextRename]_vars

\* the heartbeat task is scheduled by the event loop once a second for as long
\* as it is running and the loop is not blocked
SpecHeartbeat == Init /\ [][Next]_vars /\ WF_vars(\E R \in Raisers : HeartbeatTick(R))

\* a session of an edit server without profiling; the mode and the profile
\* path only select the branch close_kernel takes
InitEdit == Init /\ mode = EDIT /\ ~profile_path

\* the session with its kernel's message stream
NextStream ==
    \/ \E c \in Consumers, main \in BOOLEAN : ConnectConsumer(c, main)
    \/ \E c \in Consumers, stop_raises \in BOOLEAN : DisconnectConsumer(c, stop_raises)
    \/ \E stop_raises \in BOOLEAN : MaybeDisconnectConsumer(stop_raises)
    \/ \E R \in Raisers : Close(R)
    \/ \E R \in Raisers : HeartbeatTick(R)
    \/ KernelDies
    \/ KernelEmit
    \/ DistributorRead

SpecStream == InitEdit /\ [][NextStream]_vars

\* the session with the operations that are broadcast to the room, and the
\* consumers changing their connection state
NextBroadcast ==
    \/ \E c \in Consumers, main \in BOOLEAN : ConnectConsumer(c, main)
    \/ \E c \in Consumers, stop_raises \in BOOLEAN : DisconnectConsumer(c, stop_raises)
    \/ \E stop_raises \in BOOLEAN : MaybeDisconnectConsumer(stop_raises)
    \/ \E c \in Consumers, st \in ConnectionState : ConsumerStateChange(c, st)
    \/ \E operation \in CellOps, from \in ConsumerIds \cup {None} :
          WriteOperation(operation, from)

SpecBroadcast == InitEdit /\ [][NextBroadcast]_vars

\* the session with the control requests put on its queues
NextControl ==
    \/ \E c \in Consumers : ConnectConsumer(c, FALSE)
    \/ \E c \in Consumers, st \in {OPEN, CLOSED} : ConsumerStateChange(c, st)
    \/ \E request \in ControlRequests, from \in ConsumerIds \cup {None} :
          PutControlRequest(request, from)
    \/ Close({})

\* sessions of both modes, without profiling
InitControl == Init /\ ~profile_path

SpecControl == InitControl /\ [][NextControl]_vars

\* the session with its cache writer: the view is synced from the cache, the
\* kernel's messages change it, the writer cycles, the notebook is renamed and
\* the session is closed; the event loop runs the writer's task for as long
\* as it is not stopped, and a write_text that does not raise ends
NextWriter ==
    \/ \E file \in CacheFiles,
          notebook_session \in {NotebookSession(<<"a">>, "v1", ""),
                                NotebookSession(<<"b">>, "v1", "")} :
              SyncSessionViewFromCache(file, notebook_session,
                                       SessionCacheKey(<<"a">>, "v1"))
    \/ KernelEmit
    \/ DistributorRead
    \/ \E fails \in BOOLEAN : WriterCycle(fails)
    \/ \E ok \in BOOLEAN : WriterWrite(ok)
    \/ \E new_path \in FileKeys : RenamePath(new_path)
    \/ Close({})

SpecWriter ==
    InitEdit /\ [][NextWriter]_vars
        /\ WF_vars(WriterCycle(FALSE)) /\ WF_vars(WriterWrite(TRUE))

\* a SessionCacheManager with some cache file, written for the cells doc_codes
\* under some version, and some key
InitCache ==
    /\ \E file \in CacheFiles, lacks \in {"", "cells", "metadata"},
          doc_codes \in SeqUpTo(CellCodes \ {""}, MaxCells), dv \in Versions,
          codes \in SeqUpTo(CellCodes, MaxCells), kv \in Versions :
          cache = [NoCache EXCEPT !.file = file, !.doc_codes = doc_codes,
                                  !.notebook_session =
                                      NotebookSession(doc_codes, dv,
                                          IF file = "document" THEN lacks ELSE ""),
                                  !.key = SessionCacheKey(codes, kv)]
    /\ mode = EDIT
    /\ profile_path = FALSE
    /\ main_consumer = None
    /\ consumers = <<>>
    /\ disposables = {}
    /\ conn = [c \in Consumers |-> CLOSED]
    /\ subs = <<>>
    /\ running = FALSE
    /\ emitted = 0
    /\ delivered = 0
    /\ received = [c \in Consumers |-> <<>>]
    /\ joined_at = [c \in Consumers |-> 0]
    /\ session_view = [cells |-> [c \in Cells |-> "-"], raw |-> <<>>, requests |-> <<>>,
                     needs_export |-> FALSE, object |-> "original"]
    /\ control_queue = <<>>
    /\ set_ui_element_queue = <<>>
    /\ queues_closed = FALSE
    /\ closed = FALSE
    /\ heartbeat_task = "-"
    /\ kernel_alive = FALSE
    /\ kernel_closes = 0
    /\ terminated = FALSE
    /\ profile_exists = FALSE
    /\ pc = "idle"
    /\ disposal = [c \in Consumers |-> "none"]
    /\ written = NoWrites
    /\ lastOp = NoOp
    /\ kernel_starts = 0
    /\ session_cache_manager = None
    /\ watched = {}
    /\ session_cache_writer = NoWriter
    /\ sessions = <<>>
    /\ objs = [o \in Objs |-> NoObject]
    /\ watch = FALSE
    /\ mgrOp = NoMgrOp

NextCache == IsCacheHit \/ ReadSessionView

SpecCache == InitCache /\ [][NextCache]_vars

\* the session with the file watcher's callback
NextFileWatch ==
    \/ StartFileWatcher
    \/ \E c \in {"B", "C"} : ConnectConsumer(c, FALSE)
    \/ \E path \in FileKeys, reload \in Reloads, autorun \in BOOLEAN,
          codes \in [Cells -> Codes] : OnFileChanged(path, reload, autorun, codes)
    \/ Close({})

SpecFileWatch == InitControl /\ [][NextFileWatch]_vars

(* ------------------------------- claims -------------------------------- *)
\* the messages delivered since the consumer c connected, in emission order
Since(c) == [i \in 1..(delivered - joined_at[c]) |-> joined_at[c] + i]

C2_ViewUnconditional ==
    [][\A operation \in CellOps, from \in ConsumerIds \cup {None} :
          WriteOperation(operation, from) =>
             /\ session_view'.cells[operation.cells[1]] = operation.status
             /\ \A c \in Consumers :
                   ConsumerIdOf(c) = from => written'[c] = <<>>
             /\ \A c \in Range(consumers) :
                   (ConsumerIdOf(c) # from /\ conn[c] = OPEN)
                       => written'[c] = <<operation>>]_vars

\* C2 witness: an operation originated by the OPEN main consumer reached a
\* kiosk consumer and the view, and not the main consumer
C2_Witness ==
    /\ main_consumer # None
    /\ conn[main_consumer] = OPEN
    /\ written[main_consumer] = <<>>
    /\ \E c \in Range(consumers) :
          /\ written[c] # <<>>
          /\ session_view.cells[written[c][1].cells[1]] = written[c][1].status

\* C3: broadcast(op, except_consumer=X) calls write_operation(op) once on each
\* consumer of the room that is OPEN and whose id is not X and on no other
\* consumer, raises for no consumer state, and leaves the room as it was
C3_BroadcastExclusion ==
    [][\A operation \in CellOps, from \in ConsumerIds \cup {None} :
          WriteOperation(operation, from) =>
             /\ \A c \in Consumers :
                   written'[c] = IF /\ c \in Range(consumers)
                                    /\ conn[c] = OPEN
                                    /\ ConsumerIdOf(c) # from
                                 THEN <<operation>> ELSE <<>>
             /\ ~lastOp'.raised
             /\ UNCHANGED roomVars]_vars

\* C3 witness: a broadcast reached one consumer of the room and skipped
\* another one that was not OPEN
C3_Witness ==
    \E c, d \in Range(consumers) :
        /\ written[c] # <<>>
        /\ written[d] = <<>>
        /\ conn[d] # OPEN

\* C4: connecting a main consumer while the room has one raises and leaves the
\* room's consumers, disposables and main slot and the distributor's
\* subscriptions as they were
C4_SecondMainNoMutation ==
    [][\A c \in Consumers :
          (main_consumer # None /\ ConnectConsumer(c, TRUE)) =>
             /\ lastOp'.raised
             /\ UNCHANGED <<main_consumer, consumers, disposables, subs>>]_vars

\* C5: the main slot, when set, holds a consumer registered in the room, and
\* no consumer is registered twice
C5_OneMain ==
    /\ main_consumer # None => main_consumer \in Range(consumers)
    /\ \A i, j \in 1..Len(consumers) : consumers[i] = consumers[j] => i = j

\* C5 witness: a main consumer with two kiosk consumers beside it
C5_Witness == main_consumer # None /\ Len(consumers) = 3 /\ ~closed

\* C6: remove_consumer(c) for c in the room calls on_stop and then the
\* disposal callback (also when on_stop raises), removes c and clears the
\* main slot iff c was main; for c not in the room it does nothing
C6_RemoveConsumer ==
    [][\A c \in Consumers, stop_raises \in BOOLEAN :
          DisconnectConsumer(c, stop_raises) =>
             IF c \in Range(consumers)
             THEN /\ lastOp'.hooks = <<IF stop_raises THEN "on_stop_raises"
                                                      ELSE "on_stop", "dispose">>
                  /\ c \notin Range(consumers')
                  /\ c \notin Range(subs')
                  /\ main_consumer' = IF main_consumer = c THEN None
                                      ELSE main_consumer
             ELSE /\ lastOp'.hooks = <<>>
                  /\ UNCHANGED <<roomVars, subs>>]_vars

\* C7: the disposal callback of a consumer that has left the room, or whose
\* room was closed, has been invoked (once)
C7_DisposedOnce ==
    \A c \in Consumers :
        (c \notin Range(consumers) \/ closed) => disposal[c] \in {"none", "invoked"}

\* C8: disconnecting the main consumer of a session that is not closed leaves
\* the session ORPHANED, whatever the consumers report, and touches neither
\* the kernel, the distributor's loop, the heartbeat, the queues nor the
\* kiosk consumers and their subscriptions
C8_MainDisconnectOrphans ==
    [][\A stop_raises \in BOOLEAN :
          (/\ ~closed
           /\ main_consumer # None
           /\ \/ DisconnectConsumer(main_consumer, stop_raises)
              \/ MaybeDisconnectConsumer(stop_raises)) =>
             /\ \A states \in ConsumerStates :
                   Session_connection_state(closed', main_consumer', states) = ORPHANED
             /\ UNCHANGED <<kernelVars, running, heartbeat_task, queueVars, closed>>
             /\ consumers' = SelectSeq(consumers, LAMBDA c : c # main_consumer)
             /\ subs' = SelectSeq(subs, LAMBDA c : c # main_consumer)]_vars

\* C8 witness: an orphaned session after its main consumer was stopped and
\* disposed, with a kiosk consumer still registered and the kernel alive
C8_Witness ==
    /\ ~closed
    /\ main_consumer = None
    /\ lastOp.hooks = <<"on_stop", "dispose">>
    /\ consumers # <<>>
    /\ kernel_alive
    /\ heartbeat_task = "running"

\* C9: connecting a main consumer c to an ORPHANED session succeeds, makes c
\* the main consumer and makes connection_state() report what c reports; and
\* the main consumer of a session that is not closed has received every
\* message delivered since it connected
C9_Resume ==
    /\ [][\A c \in Consumers :
             (~closed /\ main_consumer = None /\ ConnectConsumer(c, TRUE)) =>
                /\ ~lastOp'.raised
                /\ main_consumer' = c
                /\ \A states \in ConsumerStates :
                      Session_connection_state(closed', main_consumer', states) = states[c]]_vars
    /\ []((~closed /\ main_consumer # None)
             => received[main_consumer] = Since(main_consumer))

\* C9 witness: a main consumer that connected after the first delivery and has
\* received a message since
C9_Witness ==
    /\ ~closed
    /\ main_consumer # None
    /\ joined_at[main_consumer] > 0
    /\ received[main_consumer] # <<>>

C11_IdempotentClose ==
    [][\A R \in Raisers :
          (Close(R) \/ HeartbeatTick(R)) /\ closed'
          => /\ closed => (~lastOp'.raised /\ UNCHANGED <<roomVars, distVars,
                                                         queueVars, kernelVars>>)
             /\ Session_connection_state(closed', main_consumer', conn') = CLOSED
             /\ kernel_closes' = 1
             /\ ~running'
             /\ \A c \in Consumers : disposal'[c] # "dropped"]_vars

\* the steps of close() after the room, as the log of a step names them
TeardownSteps == {"distributor.stop", "heartbeat.cancel", "cache.stop", "close_kernel"}

\* C12: a close() that closes the session runs its steps in this order: the
\* room (every on_stop and dispose), distributor stop, heartbeat cancel, cache
\* writer stop if there is one, kernel close; whenever the kernel is closed the
\* room is empty
C12_TeardownOrder ==
    [][\A R \in Raisers :
          (Close(R) \/ HeartbeatTick(R)) /\ ~closed /\ closed'
          => LET log == lastOp'.hooks
                 steps == SelectSeq(log, LAMBDA h : h \in TeardownSteps)
             IN  /\ \A i, j \in 1..Len(log) :
                        (i < j /\ log[i] \in TeardownSteps)
                        => log[j] \notin {"on_stop", "on_stop_raises", "dispose"}
                 /\ IF lastOp'.raised
                    THEN steps = <<>> /\ kernel_closes' = kernel_closes
                    ELSE /\ steps = <<"distributor.stop", "heartbeat.cancel">>
                                    \o (IF session_cache_manager = None
                                        THEN <<>> ELSE <<"cache.stop">>)
                                    \o <<"close_kernel">>
                         /\ kernel_closes' = kernel_closes + 1
                         /\ consumers' = <<>>]_vars

\* C12 witness: a close() has stopped and disposed two consumers and then
\* stopped the distributor, the heartbeat and the cache writer, and closed the kernel
C12_Witness ==
    /\ closed
    /\ lastOp.hooks = <<"on_stop", "dispose", "on_stop", "dispose", "distributor.stop",
                        "heartbeat.cancel", "cache.stop", "close_kernel">>

\* C13: after every call of close(), whatever the stop hooks do, close_kernel
\* was invoked, the distributor is stopped, the heartbeat is not running any
\* more and the room is empty
C13_ClosedReleased ==
    [][\A R \in Raisers :
          Close(R) /\ ~closed
          => /\ kernel_closes' >= 1
             /\ ~running'
             /\ heartbeat_task' # "running"
             /\ consumers' = <<>> /\ main_consumer' = None]_vars

\* what put_control_request(request, from) does to the queues and the view
\* when the request is accepted
Enqueued(request) ==
    /\ control_queue' = Append(control_queue, request)
    /\ set_ui_element_queue' =
           IF request.kind = "SetUIElementValueRequest"
           THEN Append(set_ui_element_queue, request)
           ELSE set_ui_element_queue
    /\ session_view'.requests = Append(session_view.requests, request)

\* C14 as stated: every put_control_request(r, from) appends r at the end of
\* the control queue, appends it to the UI-value queue exactly when it is a
\* SetUIElementValueRequest, and records it in the Session View
C14_PutControlRequest ==
    [][\A request \in ControlRequests, from \in ConsumerIds \cup {None} :
          PutControlRequest(request, from) => Enqueued(request)]_vars

\* C14 amended: that holds while the session's queues are open; once close() has
\* closed the queues of an edit-mode session the call raises and neither the
\* queues nor the Session View change
C14_PutControlRequestWhileOpen ==
    [][\A request \in ControlRequests, from \in ConsumerIds \cup {None} :
          PutControlRequest(request, from)
          => IF queues_closed
             THEN lastOp'.raised /\ UNCHANGED <<queueVars, session_view>>
             ELSE ~lastOp'.raised /\ Enqueued(request)]_vars

\* C14 witness: two requests were put, one of them a SetUIElementValueRequest
C14_Witness ==
    /\ Len(control_queue) = 2 /\ Len(set_ui_element_queue) = 1
    /\ control_queue[2].kind = "SetUIElementValueRequest"
    /\ session_view.requests = control_queue

\* the notices put_control_request(request, from) sends to the consumer c
Notices(request, from, c) ==
    IF /\ request.kind = "ExecuteMultipleRequest"
       /\ c \in Range(consumers) /\ conn[c] = OPEN /\ ConsumerIdOf(c) # from
    THEN <<[kind |-> "UpdateCellCodes", cells |-> request.cells, status |-> "not_stale"]>>
         \o (IF Len(request.cells) = 1
             THEN <<[kind |-> "FocusCell", cells |-> <<request.cells[1]>>, status |-> "-"]>>
             ELSE <<>>)
    ELSE <<>>

\* C15 as stated: for an ExecuteMultipleRequest every OPEN consumer except the
\* originator is written an UpdateCellCodes notice (the request's cells, not
\* stale) and then, if the request names exactly one cell, a FocusCell notice;
\* the originator and the consumers that are not OPEN are written nothing, and
\* for another kind of request nobody is
C15_Notices ==
    [][\A request \in ControlRequests, from \in ConsumerIds \cup {None} :
          PutControlRequest(request, from)
          => \A c \in Consumers : written'[c] = Notices(request, from, c)]_vars

\* C15 amended: that holds while the session's queues are open; on an edit-mode
\* session whose queues close() has closed the call raises before it
\* broadcasts, and nobody is written anything
C15_NoticesWhileOpen ==
    [][\A request \in ControlRequests, from \in ConsumerIds \cup {None} :
          PutControlRequest(request, from)
          => \A c \in Consumers :
                written'[c] = IF queues_closed THEN <<>> ELSE Notices(request, from, c)]_vars

\* C15 witness: a one-cell ExecuteMultipleRequest from consumer B was put while
\* A and C were OPEN: A and C got both notices, B none
C15_Witness ==
    /\ ~lastOp.raised
    /\ Len(written["A"]) = 2 /\ written["A"][1].kind = "UpdateCellCodes"
    /\ written["A"][2].kind = "FocusCell"
    /\ written["C"] = written["A"]
    /\ "B" \in Range(consumers) /\ conn["B"] = OPEN /\ written["B"] = <<>>

\* C16: every consumer registered in the room is subscribed to the
\* distributor, and it has been handed every message the distributor read
\* since it was registered: none is missing from what it received
C16_SubscribedWhenRegistered ==
    \A c \in Range(consumers) :
        /\ c \in Range(subs)
        /\ joined_at[c] + Len(received[c]) = delivered
        /\ \A i \in 1..Len(received[c]) : received[c][i] = joined_at[c] + i

\* C17: a dead kernel leads to the session reporting CLOSED (the heartbeat's
\* next tick closes it); a dead kernel never becomes alive again and is never
\* started anew; the heartbeat stops running only in a closed session
C17_HeartbeatCloses ==
    /\ (~kernel_alive) ~> (Session_connection_state(closed, main_consumer, conn) = CLOSED)
    /\ [][~kernel_alive => (~kernel_alive' /\ kernel_starts' = kernel_starts)]_vars
    /\ [](heartbeat_task # "running" => closed)

\* C17 witness: the heartbeat found the kernel dead, closed the session and
\* printed the diagnostic
C17_Witness ==
    /\ closed /\ ~kernel_alive /\ heartbeat_task = "cancelled"
    /\ "print_died" \in Range(lastOp.hooks)

C19_RunResumeSameId ==
    [][\A new_id \in SessionIds, key \in FileKeys :
          (/\ mode = RUN
           /\ mgrOp'.op = "maybe_resume_session"
           /\ MaybeResumeSession(new_id, key, {})) =>
              /\ sessions' = sessions
              /\ objs' = objs
              /\ ~mgrOp'.raised
              /\ mgrOp'.ret =
                     IF /\ new_id \in Keys(sessions)
                        /\ ConnectionStateOf(objs[DictGet(sessions, new_id)]) = ORPHANED
                     THEN DictGet(sessions, new_id)
                     ELSE NoSession]_vars

\* C20: in edit mode no two entries of the sessions map are sessions of the
\* same file path
C20_OneSessionPerPath ==
    mode = EDIT =>
        \A i, j \in 1..Len(sessions) :
            i # j => objs[sessions[i].obj].path # objs[sessions[j].obj].path

\* the entries of the map whose session has the path key and a live kernel
LiveWithPath(key) ==
    SelectSeq(sessions, LAMBDA e : objs[e.obj].path = key /\ objs[e.obj].kernel_alive)

\* C21: in edit mode, when two or more sessions with live kernels have the
\* requested path, maybe_resume_session raises, returns no session and leaves
\* each of those sessions under its id
C21_TwoSessionsRaise ==
    [][\A new_id \in SessionIds, key \in FileKeys :
          (/\ mode = EDIT
           /\ Len(LiveWithPath(key)) >= 2
           /\ MaybeResumeSession(new_id, key, {})) =>
              /\ mgrOp'.raised
              /\ mgrOp'.ret = NoSession
              /\ \A i \in 1..Len(LiveWithPath(key)) :
                     DictGet(sessions', LiveWithPath(key)[i].id) = LiveWithPath(key)[i].obj
              /\ Keys(sessions') \subseteq Keys(sessions)]_vars

\* maybe_resume_session has raised with two OPEN sessions of one path in the map
C21_Witness ==
    /\ mode = EDIT
    /\ mgrOp.op = "maybe_resume_session" /\ mgrOp.raised
    /\ \E key \in FileKeys :
          /\ Len(LiveWithPath(key)) = 2
          /\ \A i \in 1..2 : ConnectionStateOf(objs[LiveWithPath(key)[i].obj]) = OPEN

\* the entries of the map whose session has the path key
WithPath(ss, key) == SelectSeq(ss, LAMBDA e : objs'[e.obj].path = key)

\* what C22 requires of a step that resumes the entry e under new_id: the
\* session e held is returned, is stored under new_id and not under its former
\* id, and is the only entry of its path
Resumed(e, new_id, key) ==
    /\ ~mgrOp'.raised
    /\ mgrOp'.ret = e.obj
    /\ DictGet(sessions', new_id) = e.obj
    /\ e.id # new_id => e.id \notin Keys(sessions')
    /\ Len(WithPath(sessions', key)) = 1

WithoutDead == SelectSeq(sessions, LAMBDA e : objs[e.obj].kernel_alive)

C25_GetOrCreate ==
    [][\A c \in Consumers, key \in FileKeys :
          (/\ mgrOp'.op = "create_session"
           /\ CreateSession(ConsumerIdOf(c), c, key)) =>
              IF ConsumerIdOf(c) \in Keys(sessions)
              THEN /\ mgrOp'.ret = DictGet(sessions, ConsumerIdOf(c))
                   /\ sessions' = sessions
                   /\ objs' = objs
              ELSE /\ mgrOp'.ret \in Objs
                   /\ ~objs[mgrOp'.ret].created
                   /\ objs'[mgrOp'.ret].created
                   /\ objs'[mgrOp'.ret].kernel_starts = 1
                   /\ objs'[mgrOp'.ret].path = key
                   /\ sessions' = Append(sessions, [id |-> ConsumerIdOf(c),
                                                    obj |-> mgrOp'.ret])
                   /\ \A o \in Objs \ {mgrOp'.ret} : objs'[o] = objs[o]]_vars

\* create_session has returned a session that was in the map already: its
\* first consumer has left and it is the only session ever made
C25_Witness ==
    /\ mgrOp.op = "create_session"
    /\ mgrOp.ret # NoSession
    /\ objs[mgrOp.ret].room.consumers = <<>>
    /\ objs[mgrOp.ret].watched # {}
    /\ \A o \in Objs \ {mgrOp.ret} : ~objs[o].created

\* C26: when reload() raises, or the changed path is not the session's file,
\* on_file_changed raises nothing and leaves the session as it was: the
\* Session View and the queues are unchanged, nothing is written to any
\* consumer, and the callback stays registered
C26_ReloadFailureIgnored ==
    [][\A path \in FileKeys, reload \in Reloads, autorun \in BOOLEAN,
         codes \in [Cells -> Codes] :
          (/\ reload = ReloadRaises \/ path # SessionPath
           /\ OnFileChanged(path, reload, autorun, codes)) =>
              /\ ~lastOp'.raised
              /\ session_view' = session_view
              /\ written' = NoWrites
              /\ control_queue' = control_queue
              /\ set_ui_element_queue' = set_ui_element_queue
              /\ watched' = watched]_vars

\* a reload has failed for a session with consumers to write to
C26_Witness ==
    /\ "LOGGER.error" \in Range(lastOp.hooks)
    /\ watched # {}
    /\ \E c \in Range(consumers) : conn[c] = OPEN
    /\ ~closed

\* the operations on_file_changed writes
ReloadOp == [kind |-> "Reload", cells |-> <<>>, status |-> "-"]
StaleCodesOp == [kind |-> "UpdateCellCodes", cells |-> CellIds, status |-> "stale"]

\* the request on_file_changed puts for the changed cells: each with its code
ExecuteChanged(changed, codes) ==
    [kind |-> "ExecuteMultipleRequest", cells |-> changed,
     codes |-> [i \in 1..Len(changed) |-> codes[changed[i]]]]

\* C27: after a successful reload of the session's file, on_file_changed in
\* run mode writes a Reload operation and nothing else and leaves the control
\* queue alone; in edit mode with auto-run it puts one ExecuteMultipleRequest
\* on the control queue, for exactly the changed cells with their current
\* codes; in edit mode without auto-run it writes UpdateCellCodes for all
\* cells marked stale and leaves the control queue alone
C27_ReloadByMode ==
    [][\A reload \in Reloads \ {ReloadRaises}, autorun \in BOOLEAN,
         codes \in [Cells -> Codes] :
          OnFileChanged(SessionPath, reload, autorun, codes) =>
              /\ mode = RUN =>
                    /\ control_queue' = control_queue
                    /\ \A c \in Consumers :
                           written'[c] = IF c \in Range(Room_broadcast(Room, None, conn))
                                         THEN <<ReloadOp>> ELSE <<>>
              /\ (mode = EDIT /\ autorun) =>
                    control_queue' = Append(control_queue, ExecuteChanged(reload, codes))
              /\ (mode = EDIT /\ ~autorun) =>
                    /\ control_queue' = control_queue
                    /\ \A c \in Range(Room_broadcast(Room, None, conn)) :
                           StaleCodesOp \in Range(written'[c])]_vars

\* C28: no on_file_changed callback is registered for a session that is
\* closed, and no callback has run write_operation or put_control_request on
\* a closed session
C28_NoWatcherOnClosed ==
    /\ \A o \in Objs : objs[o].closed => objs[o].watched = {}
    /\ (mgrOp.op = "on_file_changed" /\ mgrOp.ret # NoSession) =>
           ~objs[mgrOp.ret].closed

\* the two codes are the same code, an empty code and an absent one being alike
SameCode(a, b) == a = b \/ ({a, b} \subseteq {NoCode, ""})

\* C29: for a complete document, is_cache_hit returns true exactly when the
\* document has as many cells as the key has codes, every cell's code_hash is
\* the hash of the code at its position, and the versions are equal; so for a
\* document written for the codes doc_codes a hit means that the key has the
\* same codes in the same order and the same version
C29_CacheHit ==
    (cache.op = "is_cache_hit" /\ cache.notebook_session.lacks = "") =>
        /\ ~cache.raised
        /\ cache.ret <=>
               /\ Len(cache.key.codes) = Len(cache.notebook_session.cells)
               /\ \A i \in 1..Len(cache.key.codes) :
                      i <= Len(cache.notebook_session.cells) =>
                          cache.notebook_session.cells[i].code_hash
                              = hash_code(cache.key.codes[i])
               /\ cache.key.marimo_version = cache.notebook_session.marimo_version
        /\ cache.ret <=>
               /\ Len(cache.key.codes) = Len(cache.doc_codes)
               /\ \A i \in 1..Len(cache.key.codes) :
                      i <= Len(cache.doc_codes) =>
                          SameCode(cache.key.codes[i], cache.doc_codes[i])
               /\ cache.key.marimo_version = cache.notebook_session.marimo_version

\* a hit for a document of two cells, the second without code, and a key with
\* the first cell's code and an empty code
C29_Witness ==
    /\ cache.op = "is_cache_hit"
    /\ cache.notebook_session.lacks = ""
    /\ cache.ret
    /\ cache.key.codes = <<"a", "">>
    /\ cache.doc_codes = <<"a", NoCode>>

\* C30: read_session_view raises nothing; it returns the deserialized view
\* when the cache file is a document that is_cache_hit accepts, and the
\* in-memory view in every other case (no path, no file, a file that cannot
\* be read or parsed, a document without the expected fields, a cache miss)
C30_ReadSessionView ==
    cache.op = "read_session_view" =>
        /\ ~cache.raised
        /\ cache.view = "deserialized" <=>
               /\ cache.file = "document"
               /\ cache.notebook_session.lacks = ""
               /\ SessionCacheManager_is_cache_hit(cache.notebook_session, cache.key).ret

\* C33: every close_kernel on a kernel that is alive puts one StopRequest on
\* the control queue, in process and in thread mode, and the queues are not
\* closed and the kernel is not terminated without it; a thread-mode kernel
\* is never terminated
C33_StopSentinel ==
    [][(kernel_closes' # kernel_closes /\ kernel_alive) =>
           /\ Count(control_queue', StopRequest) = Count(control_queue, StopRequest) + 1
           /\ mode = RUN => ~terminated']_vars

\* C34: every call of close_kernel returns in the step that makes it: it is
\* never left waiting for the kernel or for the profile file
C34_CloseKernelReturns ==
    [][kernel_closes' # kernel_closes => pc' = "idle"]_vars

\* C37: after close_session(id) has returned True the session it closed is
\* closed and is no value of the sessions map, whether id was its key or the
\* consumer id of a kiosk consumer in its room; close_session that returns
\* False (no session matches id) leaves the map and every session as they were
C37_CloseSessionRemoves ==
    [][(mgrOp'.op = "close_session" /\ ~mgrOp'.raised) =>
           IF mgrOp'.ret # NoSession
           THEN /\ mgrOp'.ret \notin Values(sessions')
                /\ objs'[mgrOp'.ret].closed
           ELSE /\ sessions' = sessions
                /\ objs' = objs]_vars

\* C38: every session maybe_resume_session returns is not closed and has an
\* empty main-consumer slot, so that connect_consumer(new_consumer, main=True)
\* on it does not raise
C38_ResumedAcceptsMain ==
    [][(mgrOp'.op = "maybe_resume_session" /\ mgrOp'.ret # NoSession) =>
           /\ ~objs'[mgrOp'.ret].closed
           /\ objs'[mgrOp'.ret].room.main_consumer = None
           /\ \A c \in Consumers :
                  MgrFresh(c)' =>
                      ~Session_connect_consumer(objs'[mgrOp'.ret].room,
                                                objs'[mgrOp'.ret].subs, c, TRUE).raised]_vars

\* C39: every session that is a value of the sessions map before a step of the
\* SessionManager and is no value of it afterwards has been closed
C39_LeavesMapClosed ==
    [][\A o \in Values(sessions) \ Values(sessions') : objs'[o].closed]_vars

\* C35: handle_file_rename_for_watch returns (False, message) and changes no
\* watcher registration when the session is unknown or the new path does not
\* exist; on success with watching enabled the callback of the previous path
\* is removed and the session's callback is registered at the new path; when
\* the handover raises, the call returns (False, message) without raising and
\* the session's callback is registered at the new path
C35_RenameHandover ==
    [][mgrOp'.op = "handle_file_rename_for_watch" =>
           \A id \in SessionIds, new_path \in FileKeys, exists \in BOOLEAN,
              W \in SUBSET {"remove", "add", "readd"} :
               HandleFileRenameForWatch(id, new_path, exists, W) =>
                   \E o \in {SessionManager_get_session(sessions, objs, id)} :
                       IF o = NoSession \/ ~exists
                       THEN /\ ~mgrOp'.raised
                            /\ mgrOp'.ret = NoSession
                            /\ \A q \in Objs : objs'[q].watched = objs[q].watched
                       ELSE IF ~watch THEN TRUE
                       ELSE IF "remove" \in W \/ "add" \in W
                       THEN /\ ~mgrOp'.raised
                            /\ mgrOp'.ret = NoSession
                            /\ new_path \in objs'[o].watched
                       ELSE /\ ~mgrOp'.raised
                            /\ mgrOp'.ret = o
                            /\ objs[o].path # new_path => objs[o].path \notin objs'[o].watched
                            /\ new_path \in objs'[o].watched]_vars

\* C36: the Session View's callback is the first callback of the distributor
\* and the consumers' callbacks follow it, so the read loop hands every
\* message to the view before any consumer; the view holds every message the
\* read loop has consumed, the main consumer of the construction, while it
\* stays subscribed, has received every one of them, and no consumer has
\* received a message the view does not hold
C36_ViewFirst ==
    /\ subs # <<>>
    /\ subs[1] = ViewCallback
    /\ \A i \in 2..Len(subs) : subs[i] \in Consumers
    /\ session_view.raw = [i \in 1..delivered |-> i]
    /\ ("A" \in Range(subs) /\ joined_at["A"] = 0) =>
           received["A"] = [i \in 1..delivered |-> i]
    /\ \A c \in Consumers : Range(received[c]) \subseteq Range(session_view.raw)

\* the read loop has consumed two messages while the main consumer of the
\* construction and a kiosk consumer are subscribed
C36_Witness ==
    /\ delivered = 2
    /\ Len(subs) >= 3
    /\ "A" \in Range(subs)
    /\ joined_at["A"] = 0
    /\ received["A"] = <<1, 2>>

\* C31: a write of the cache file begins only in a cycle that finds
\* needs_export true, and a cycle that finds no unflushed change begins no
\* write; the view is marked as exported only together with a write of its
\* state, and when that write has ended and the writer was not stopped the
\* document is in the cache file, unless the view has changed again; and for as long as a writer runs, is not stopped and nothing fails,
\* every kernel message of an unflushed view is eventually in the document the
\* writer wrote for its notebook
C31_WriterFlushes ==
    /\ [][(session_cache_writer.writing = {} /\ session_cache_writer'.writing # {}) =>
              session_view.needs_export]_vars
    /\ [][(~session_view.needs_export /\ session_view' = session_view) =>
              /\ session_cache_writer'.writing \subseteq session_cache_writer.writing
              /\ \A p \in FileKeys :
                     session_cache_writer'.wrote[p] # session_cache_writer.wrote[p] =>
                         session_cache_writer'.wrote[p] = session_cache_writer.writing]_vars
    /\ [][(/\ session_view.needs_export
           /\ ~session_view'.needs_export
           /\ session_view'.object = session_view.object) =>
              session_cache_writer'.writing =
                  {[cells |-> session_view.cells, raw |-> session_view.raw,
                    requests |-> session_view.requests]}]_vars
    /\ [][(/\ session_cache_writer.writing # {}
           /\ session_cache_writer'.writing = {}
           /\ session_cache_writer'.tasks > 0
           /\ session_cache_writer'.gen = session_cache_writer.gen) =>
              \/ session_view'.needs_export
              \/ session_cache_writer'.wrote[session_cache_writer.path] =
                     session_cache_writer.writing]_vars
    /\ \A m \in 1..MaxMsgs, g \in {0, 1} :
           [](( /\ session_cache_writer.tasks > 0
                /\ ~session_cache_writer.failed
                /\ session_cache_writer.gen = g
                /\ session_view.needs_export
                /\ m \in Range(session_view.raw)) =>
                  <>(\/ session_cache_writer.tasks = 0
                     \/ session_cache_writer.failed
                     \/ session_cache_writer.gen # g
                     \/ \E doc \in session_cache_writer.wrote[session_cache_writer.path] :
                            m \in Range(doc.raw)))

\* C32: a cycle of the writer in which serializing fails, and a write that
\* fails, leave the writer failed; a failed writer begins no write and writes
\* no document for as long as it is the session's writer; and the failing step
\* raises nothing in the session and leaves the session open or closed as it
\* was, with its kernel, its queues, its room and its consumers' connections
\* unchanged
C32_WriterStopsOnFailure ==
    /\ [][(/\ session_view.needs_export
           /\ ~session_view'.needs_export
           /\ session_view'.object = session_view.object
           /\ session_cache_writer'.writing = {}) =>
              session_cache_writer'.failed]_vars
    /\ [][(/\ session_cache_writer.failed
           /\ session_cache_writer'.tasks > 0
           /\ session_cache_writer'.gen = session_cache_writer.gen) =>
              /\ session_cache_writer'.failed
              /\ session_cache_writer'.writing = {}
              /\ session_cache_writer'.wrote = session_cache_writer.wrote]_vars
    /\ [][(~session_cache_writer.failed /\ session_cache_writer'.failed) =>
              /\ ~lastOp'.raised
              /\ UNCHANGED <<closed, pc, kernelVars, queueVars, roomVars, conn,
                             distVars, heartbeat_task, session_cache_manager>>]_vars

\* the writer has failed, the session is open with its kernel alive and its
\* main consumer in the room, and the view has changes that are not written
C32_Witness ==
    /\ session_cache_writer.failed
    /\ session_cache_writer.tasks > 0
    /\ ~closed
    /\ kernel_alive
    /\ main_consumer # None
    /\ session_view.needs_export
    /\ session_view.raw = <<1, 2>>
    /\ \A p \in FileKeys : \A doc \in session_cache_writer.wrote[p] : doc.raw # <<1, 2>>

\* C40: once sync_session_view_from_cache has returned, and after every later
\* rename_path, the view the running cache writer serializes is the session's
\* live view, the one kernel messages and control requests update (the
\* deserialized view after a cache hit, the original view after a miss); the
\* session's view is not replaced again; and at most one writer task runs
C40_WriterSharesLiveView ==
    /\ [](/\ session_cache_writer.tasks <= 1
          /\ session_cache_writer.tasks > 0 =>
                /\ session_cache_writer.view = session_view.object
                /\ session_cache_writer.mgr_view = session_view.object)
    /\ [][session_cache_manager # None =>
              session_view'.object = session_view.object]_vars

\* after a cache hit and a rename the writer for the new path runs on the
\* deserialized view, which a kernel message has updated since
C40_Witness ==
    /\ session_cache_writer.tasks = 1
    /\ session_cache_writer.path # SessionPath
    /\ session_cache_writer.view = "deserialized"
    /\ session_view.object = "deserialized"
    /\ session_view.raw # <<>>
====
